---------------------------- MODULE Spec2Model ----------------------------
(***************************************************************************)
(* A model of rust-minetestworld: the position arithmetic (positions.rs),  *)
(* the MapBlock binary codec (map_block.rs), the storage backend contract  *)
(* (map_data.rs) and the VoxelManip write-back cache (voxel_manip.rs).     *)
(*                                                                         *)
(* Byte strings are sequences of numbers 0..255.  A u32 is kept as the     *)
(* pair <<high 16 bits, low 16 bits>>, an i32 as an integer.  Results of   *)
(* fallible functions are records [ok, val, rest, err]: `rest` is what is  *)
(* left of the reader after the call, `err` is <<kind, argument>>.         *)
(***************************************************************************)
EXTENDS Integers, Sequences, FiniteSets, TLC

(***************************************************************************)
(* Program constants                                                       *)
(***************************************************************************)
MAPBLOCK_LENGTH == 16

MAPBLOCK_SIZE == MAPBLOCK_LENGTH * MAPBLOCK_LENGTH * MAPBLOCK_LENGTH

\* b"unknown"
CONTENT_UNKNOWN == <<117, 110, 107, 110, 111, 119, 110>>

\* b"ignore"
CONTENT_IGNORE == <<105, 103, 110, 111, 114, 101>>

\* b"EndInventory\n"
END_INVENTORY == <<69, 110, 100, 73, 110, 118, 101, 110, 116, 111, 114, 121, 10>>

\* The only map format version from_data accepts and to_binary writes.
MAP_FORMAT_VERSION == 29

NoError == <<"none", 0>>

Ok(v, r) == [ok |-> TRUE, val |-> v, rest |-> r, err |-> NoError]

Err(kind, arg) == [ok |-> FALSE, val |-> <<>>, rest |-> <<>>, err |-> <<kind, arg>>]

Drop(data, n) == SubSeq(data, n + 1, Len(data))

Take(data, n) == SubSeq(data, 1, n)

(***************************************************************************)
(* positions.rs                                                            *)
(***************************************************************************)
Pos(x, y, z) == [x |-> x, y |-> y, z |-> z]

\* `v as u16` of an i16
AsU16(v) == v % 65536

\* Position::from_node_index: both y and z are taken from node_index / 16.
from_node_index(node_index) ==
    LET x == node_index % 16
        i == node_index \div 16
        y == i % 16
        i2 == node_index \div 16
        z == i2 % 16
    IN  Pos(x, y, z)

\* Position::as_node_index, u16 arithmetic as a release build wraps it.
as_node_index(p) == (AsU16(p.x) + 16 * AsU16(p.y) + 256 * AsU16(p.z)) % 65536

\* div_floor as it would be if it rounded towards zero, as `/` does.
div_floor_truncates(a, b) == IF a >= 0 THEN a \div b ELSE -((-a) \div b)

\* num_integer::div_floor on i16
div_floor(a, b) == a \div b

\* mapblock_at as it would be if it divided the components as u16.
mapblock_at_unsigned(p) ==
    Pos(AsU16(p.x) \div MAPBLOCK_LENGTH,
        AsU16(p.y) \div MAPBLOCK_LENGTH,
        AsU16(p.z) \div MAPBLOCK_LENGTH)

mapblock_at(p) ==
    Pos(div_floor(p.x, MAPBLOCK_LENGTH),
        div_floor(p.y, MAPBLOCK_LENGTH),
        div_floor(p.z, MAPBLOCK_LENGTH))

\* <<blockpos, relative_pos>>
split_at_block(p) ==
    LET blockpos == mapblock_at(p)
    IN  <<blockpos,
          Pos(p.x - blockpos.x * MAPBLOCK_LENGTH,
              p.y - blockpos.y * MAPBLOCK_LENGTH,
              p.z - blockpos.z * MAPBLOCK_LENGTH)>>

\* An i64 database key is kept as <<high, low>>, the number
\* high * 2^24 + low with 0 <= low < 2^24: TLC's integers have 32
\* bits.  I64(high, v) is the key high * 2^24 + v.
I64(high, v) == <<high + v \div 16777216, v % 16777216>>

\* `i - v` on a key
I64Sub(i, v) == I64(i[1], i[2] - v)

\* `i % b` on a key, for b a power of two up to 2^24: the remainder has the
\* sign of i.
I64Rem(i, b) == IF i[1] >= 0 \/ i[2] % b = 0 THEN i[2] % b ELSE (i[2] % b) - b

\* `i / 4096` on a key, rounded towards zero; the quotient of a key of 36
\* bits is a plain number.
I64Div4096(i) ==
    IF i[1] >= 0 \/ i[2] % 4096 = 0
    THEN i[1] * 4096 + i[2] \div 4096
    ELSE i[1] * 4096 + i[2] \div 4096 + 1

\* `a % b` on plain numbers with b > 0: the remainder has the sign of a.
RemI64(a, b) == IF a >= 0 THEN a % b ELSE -((-a) % b)

\* `a / b` on plain numbers with b > 0: the quotient is rounded towards zero.
DivI64(a, b) == IF a >= 0 THEN a \div b ELSE -((-a) \div b)

\* `v as i16`
AsI16(v) == IF v % 65536 >= 32768 THEN (v % 65536) - 65536 ELSE v % 65536

\* positions::modulo, (a % b + b) % b, on the remainder a % b
modulo(rem, b) == RemI64(rem + b, b)

\* The inner fn of from_database_key.
unsigned_to_signed(i, max_positive) ==
    IF i < max_positive THEN i ELSE i - 2 * max_positive

\* from_database_key as it would be without the subtraction of the component
\* before each division.
from_database_key_no_borrow(i) ==
    LET x == AsI16(unsigned_to_signed(modulo(I64Rem(i, 4096), 4096), 2048))
        i2 == I64Div4096(i)
        y == AsI16(unsigned_to_signed(modulo(RemI64(i2, 4096), 4096), 2048))
        i3 == DivI64(i2, 4096)
        z == AsI16(unsigned_to_signed(modulo(RemI64(i3, 4096), 4096), 2048))
    IN  Pos(x, y, z)

\* Position::from_database_key
from_database_key(i) ==
    LET x == AsI16(unsigned_to_signed(modulo(I64Rem(i, 4096), 4096), 2048))
        i2 == I64Div4096(I64Sub(i, x))
        y == AsI16(unsigned_to_signed(modulo(RemI64(i2, 4096), 4096), 2048))
        i3 == DivI64(i2 - y, 4096)
        z == AsI16(unsigned_to_signed(modulo(RemI64(i3, 4096), 4096), 2048))
    IN  Pos(x, y, z)

\* as_database_key as it would be if it packed the three 12-bit fields.
as_database_key_packs_fields(p) ==
    I64(p.z % 4096, (p.x % 4096) + (p.y % 4096) * 4096)

\* Position::as_database_key
as_database_key(p) == I64(p.z, p.x + p.y * 4096)

(***************************************************************************)
(* map_block.rs: integer readers and writers.  A reader returns Ok(value,  *)
(* unread data) or Err(error); the `?` of the source is the test of .ok    *)
(* that returns the Err.                                                   *)
(***************************************************************************)
\* Read::read_exact on a slice
read_exact(data, n) ==
    IF Len(data) < n THEN Err("ReadError", 0) ELSE Ok(Take(data, n), Drop(data, n))

read_u8(data) ==
    IF Len(data) < 1 THEN Err("ReadError", 0) ELSE Ok(data[1], Drop(data, 1))

read_u16_be(data) ==
    IF Len(data) < 2 THEN Err("ReadError", 0)
    ELSE Ok(data[1] * 256 + data[2], Drop(data, 2))

read_u32_be(data) ==
    IF Len(data) < 4 THEN Err("ReadError", 0)
    ELSE Ok(<<data[1] * 256 + data[2], data[3] * 256 + data[4]>>, Drop(data, 4))

\* i32::from_be_bytes
I32FromBytes(b) ==
    (IF b[1] >= 128 THEN b[1] - 256 ELSE b[1]) * 16777216
        + b[2] * 65536 + b[3] * 256 + b[4]

read_i32_be(data) ==
    IF Len(data) < 4 THEN Err("ReadError", 0)
    ELSE Ok(I32FromBytes(data), Drop(data, 4))

\* u16::to_be_bytes
U16BE(n) == <<n \div 256, n % 256>>

\* u32::to_be_bytes of a <<high, low>> pair
U32BE(v) == U16BE(v[1]) \o U16BE(v[2])

\* i32::to_be_bytes (two's complement)
I32BE(n) == <<(n \div 16777216) % 256, (n \div 65536) % 256, (n \div 256) % 256, n % 256>>

\* `n as u16` of a usize
LenAsU16(n) == n % 65536

\* `n as u32` of a usize (the model's lengths stay far below 2^31)
LenAsU32(n) == <<(n \div 65536) % 65536, n % 65536>>

\* A u32 as a loop count or buffer size.  No stream of the model holds 2^31
\* bytes: such a count is given as one more than any stream can satisfy.
U32AsCount(v, data) == IF v[1] >= 32768 THEN Len(data) + 1 ELSE v[1] * 65536 + v[2]

(***************************************************************************)
(* The three node arrays of a MapBlock.  param1 and param2 ([u8; 4096])    *)
(* are sequences of MAPBLOCK_SIZE bytes: element i of the Rust array is    *)
(* element i + 1 of the sequence.  param0 ([u16; 4096]) is held as its     *)
(* big-endian byte image, 2 * MAPBLOCK_SIZE bytes: element i of the Rust   *)
(* array is U16At(param0, i), the u16::from_be_bytes that read_u16_be      *)
(* applies, and a store of v writes U16BE(v), the v.to_be_bytes() of       *)
(* to_binary.                                                              *)
(***************************************************************************)
U16At(image, i) == image[2 * i + 1] * 256 + image[2 * i + 2]

U16Store(image, i, v) ==
    [image EXCEPT ![2 * i + 1] = U16BE(v)[1], ![2 * i + 2] = U16BE(v)[2]]

\* MAPBLOCK_SIZE times read_u16_be
read_param0(data) == read_exact(data, 2 * MAPBLOCK_SIZE)

read_nodeparams(data) == read_exact(data, MAPBLOCK_SIZE)

(***************************************************************************)
(* map_block.rs: the content table (name_id_mappings), a HashMap<u16, _>   *)
(* modelled as a function from the IDs present to their names.             *)
(***************************************************************************)
EmptyMappings == [k \in {} |-> <<>>]

MapInsert(m, id, name) == [k \in (DOMAIN m) \cup {id} |-> IF k = id THEN name ELSE m[k]]

RECURSIVE ReadMappingEntries(_, _, _)
\* The loop of read_name_id_mappings: n entries left, acc read so far.
ReadMappingEntries(data, n, acc) ==
    IF n = 0 THEN Ok(acc, data)
    ELSE LET id == read_u16_be(data)
             name_len == read_u16_be(id.rest)
             name == read_exact(name_len.rest, name_len.val)
         IN  IF ~id.ok THEN id
             ELSE IF ~name_len.ok THEN name_len
             ELSE IF ~name.ok THEN name
             ELSE IF id.val \in DOMAIN acc THEN Err("BlobMalformed", id.val)
             ELSE ReadMappingEntries(name.rest, n - 1, MapInsert(acc, id.val, name.val))

read_name_id_mappings(data) ==
    LET version == read_u8(data)
        num == read_u16_be(version.rest)
    IN  IF ~version.ok THEN version
        ELSE IF version.val # 0 THEN Err("BlobMalformed", version.val)
        ELSE IF ~num.ok THEN num
        ELSE ReadMappingEntries(num.rest, num.val, EmptyMappings)

RECURSIVE WriteMappingEntries(_, _)
\* The loop of write_name_id_mappings over the keys in iteration order.
WriteMappingEntries(mappings, order) ==
    IF order = <<>> THEN <<>>
    ELSE U16BE(Head(order)) \o U16BE(LenAsU16(Len(mappings[Head(order)])))
             \o mappings[Head(order)]
             \o WriteMappingEntries(mappings, Tail(order))

\* `order` is the order in which the HashMap yields its keys.
\* `mappings.len() as u16`, the count write_name_id_mappings writes.
WrittenCount(mappings) == LenAsU16(Cardinality(DOMAIN mappings))

write_name_id_mappings(mappings, order) ==
    <<0>> \o U16BE(WrittenCount(mappings))
          \o WriteMappingEntries(mappings, order)

RECURSIVE Ascending(_)
\* The elements of a set of numbers in ascending order.
Ascending(S) ==
    IF S = {} THEN <<>>
    ELSE <<CHOOSE m \in S : \A k \in S : m <= k>>
             \o Ascending(S \ {CHOOSE m \in S : \A k \in S : m <= k})

Reverse(seq) == [i \in 1..Len(seq) |-> seq[Len(seq) + 1 - i]]

\* The orders in which the model lets a HashMap with these keys iterate: of
\* the permutations the hasher may produce, the ascending and the descending.
IterOrders(mappings) == {Ascending(DOMAIN mappings), Reverse(Ascending(DOMAIN mappings))}

(***************************************************************************)
(* map_block.rs: node metadata.  A NodeMetadata is [position, vars,        *)
(* inventory], a NodeVar is [key, value, is_private].                      *)
(***************************************************************************)
RECURSIVE ReadInventoryLoop(_, _, _)
\* The loop of read_inventory over data.bytes().
ReadInventoryLoop(data, result, line) ==
    IF data = <<>> THEN Err("ReadError", 0)
    ELSE IF Head(data) # 10
    THEN ReadInventoryLoop(Tail(data), result, Append(line, Head(data)))
    ELSE IF Append(line, 10) = END_INVENTORY
    THEN Ok(result \o Append(line, 10), Tail(data))
    ELSE ReadInventoryLoop(Tail(data), result \o Append(line, 10), <<>>)

read_inventory(data) == ReadInventoryLoop(data, <<>>, <<>>)

RECURSIVE ReadNodeVars(_, _, _)
\* The inner loop of read_node_metadata: n variables left.
ReadNodeVars(data, n, vars) ==
    IF n = 0 THEN Ok(vars, data)
    ELSE LET key_len == read_u16_be(data)
             key == read_exact(key_len.rest, key_len.val)
             value_len == read_u32_be(key.rest)
             value == read_exact(value_len.rest, U32AsCount(value_len.val, value_len.rest))
             is_private == read_u8(value.rest)
         IN  IF ~key_len.ok THEN key_len
             ELSE IF ~key.ok THEN key
             ELSE IF ~value_len.ok THEN value_len
             ELSE IF ~value.ok THEN value
             ELSE IF ~is_private.ok THEN is_private
             ELSE IF is_private.val > 1 THEN Err("BlobMalformed", is_private.val)
             ELSE ReadNodeVars(is_private.rest, n - 1,
                      Append(vars, [key |-> key.val, value |-> value.val,
                                    is_private |-> is_private.val = 1]))

RECURSIVE ReadMetadata(_, _, _)
\* The outer loop of read_node_metadata.  Each metadatum is built and then
\* dropped at the end of the iteration: `metadata` is never pushed to.
ReadMetadata(data, n, metadata) ==
    IF n = 0 THEN Ok(metadata, data)
    ELSE LET position == read_u16_be(data)
             var_count == read_u32_be(position.rest)
             vars == ReadNodeVars(var_count.rest,
                                  U32AsCount(var_count.val, var_count.rest), <<>>)
             inventory == read_inventory(vars.rest)
         IN  IF ~position.ok THEN position
             ELSE IF ~var_count.ok THEN var_count
             ELSE IF ~vars.ok THEN vars
             ELSE IF ~inventory.ok THEN inventory
             ELSE ReadMetadata(inventory.rest, n - 1, metadata)

read_node_metadata(data) ==
    LET metadata_version == read_u8(data)
        metadata_count == read_u16_be(metadata_version.rest)
    IN  IF ~metadata_version.ok THEN metadata_version
        ELSE IF metadata_version.val = 0 THEN Ok(<<>>, metadata_version.rest)
        ELSE IF metadata_version.val # 2
        THEN Err("UnsupportedNodeMetadataVersion", metadata_version.val)
        ELSE IF ~metadata_count.ok THEN metadata_count
        ELSE ReadMetadata(metadata_count.rest, metadata_count.val, <<>>)

RECURSIVE WriteNodeVars(_)
WriteNodeVars(vars) ==
    IF vars = <<>> THEN <<>>
    ELSE U16BE(LenAsU16(Len(Head(vars).key))) \o Head(vars).key
             \o U32BE(LenAsU32(Len(Head(vars).value))) \o Head(vars).value
             \o <<IF Head(vars).is_private THEN 1 ELSE 0>>
             \o WriteNodeVars(Tail(vars))

RECURSIVE WriteMetadata(_)
\* The loop of write_node_metadata: position, variables, inventory.  No
\* variable count is written.
WriteMetadata(data) ==
    IF data = <<>> THEN <<>>
    ELSE U16BE(as_node_index(Head(data).position))
             \o WriteNodeVars(Head(data).vars)
             \o Head(data).inventory
             \o WriteMetadata(Tail(data))

write_node_metadata(data) ==
    IF data = <<>> THEN <<0>>
    ELSE <<2>> \o U16BE(LenAsU16(Len(data))) \o WriteMetadata(data)

(***************************************************************************)
(* map_block.rs: static objects, [type_id, x, y, z, data]                  *)
(***************************************************************************)
\* Ok(<<x, y, z>>)
read_object_pos(data) ==
    IF Len(data) < 12 THEN Err("ReadError", 0)
    ELSE Ok(<<I32FromBytes(SubSeq(data, 1, 4)),
              I32FromBytes(SubSeq(data, 5, 8)),
              I32FromBytes(SubSeq(data, 9, 12))>>, Drop(data, 12))

RECURSIVE ReadStaticObjects(_, _, _)
\* The loop of read_static_objects.
ReadStaticObjects(source, n, objects) ==
    IF n = 0 THEN Ok(objects, source)
    ELSE LET type_id == read_u8(source)
             pos == read_object_pos(type_id.rest)
             data_size == read_u16_be(pos.rest)
             data == read_exact(data_size.rest, data_size.val)
         IN  IF ~type_id.ok THEN type_id
             ELSE IF ~pos.ok THEN pos
             ELSE IF ~data_size.ok THEN data_size
             ELSE IF ~data.ok THEN data
             ELSE ReadStaticObjects(data.rest, n - 1,
                      Append(objects, [type_id |-> type_id.val,
                                       x |-> pos.val[1], y |-> pos.val[2],
                                       z |-> pos.val[3], data |-> data.val]))

read_static_objects(source) ==
    LET version == read_u8(source)
        count == read_u16_be(version.rest)
    IN  IF ~version.ok THEN version
        ELSE IF version.val # 0 THEN Err("BlobMalformed", version.val)
        ELSE IF ~count.ok THEN count
        ELSE ReadStaticObjects(count.rest, count.val, <<>>)

RECURSIVE WriteStaticObjects(_)
\* The loop of write_static_objects: x, y, z, the data length and the data.
\* The type_id of the object is not written.
WriteStaticObjects(data) ==
    IF data = <<>> THEN <<>>
    ELSE I32BE(Head(data).x) \o I32BE(Head(data).y) \o I32BE(Head(data).z)
             \o U16BE(LenAsU16(Len(Head(data).data))) \o Head(data).data
             \o WriteStaticObjects(Tail(data))

write_static_objects(data) ==
    <<0>> \o U16BE(LenAsU16(Len(data))) \o WriteStaticObjects(data)

(***************************************************************************)
(* map_block.rs: node timers, [position, timeout, elapsed]                 *)
(***************************************************************************)
RECURSIVE ReadTimers(_, _, _)
\* The loop of read_timers.
ReadTimers(data, n, timers) ==
    IF n = 0 THEN Ok(timers, data)
    ELSE LET position == read_u16_be(data)
             timeout == read_i32_be(position.rest)
             elapsed == read_i32_be(timeout.rest)
         IN  IF ~position.ok THEN position
             ELSE IF ~timeout.ok THEN timeout
             ELSE IF ~elapsed.ok THEN elapsed
             ELSE ReadTimers(elapsed.rest, n - 1,
                      Append(timers, [position |-> from_node_index(position.val),
                                      timeout |-> timeout.val,
                                      elapsed |-> elapsed.val]))

\* read_timers as it would be if it took records of any declared size.
read_timers_any_size(data) ==
    LET timer_size == read_u8(data)
        count == read_u16_be(timer_size.rest)
    IN  IF ~timer_size.ok THEN timer_size
        ELSE IF ~count.ok THEN count
        ELSE ReadTimers(count.rest, count.val, <<>>)

read_timers(data) ==
    LET timer_size == read_u8(data)
        count == read_u16_be(timer_size.rest)
    IN  IF ~timer_size.ok THEN timer_size
        ELSE IF timer_size.val # 10 THEN Err("BlobMalformed", timer_size.val)
        ELSE IF ~count.ok THEN count
        ELSE ReadTimers(count.rest, count.val, <<>>)

RECURSIVE WriteTimers(_)
WriteTimers(data) ==
    IF data = <<>> THEN <<>>
    ELSE U16BE(as_node_index(Head(data).position))
             \o I32BE(Head(data).timeout) \o I32BE(Head(data).elapsed)
             \o WriteTimers(Tail(data))

write_node_timers(data) ==
    <<10>> \o U16BE(LenAsU16(Len(data))) \o WriteTimers(data)

(***************************************************************************)
(* The Zstandard stream (zstd crate).  A frame is the 4-byte magic number, *)
(* the size of the content and the content.  Decoder::new(data)? and       *)
(* read_to_end(&mut buffer)? both convert the std::io::Error of the        *)
(* decoder with From<std::io::Error>, which is MapBlockError::ReadError: a *)
(* stream that does not start with the magic number, ends before the frame *)
(* does or goes on behind it is such an error.                             *)
(***************************************************************************)
ZSTD_MAGIC == <<40, 181, 47, 253>>

ZstdEncode(payload) == ZSTD_MAGIC \o U32BE(LenAsU32(Len(payload))) \o payload

ZstdDecodeMalformed(data) == Err("BlobMalformed", 0)

ZstdFrameError(data) == Err("ReadError", 0)

ZstdDecode(data) ==
    IF /\ Len(data) >= 8
       /\ Take(data, 4) = ZSTD_MAGIC
       /\ LenAsU32(Len(data) - 8) = <<data[5] * 256 + data[6], data[7] * 256 + data[8]>>
    THEN Ok(Drop(data, 8), <<>>)
    ELSE ZstdFrameError(data)

(***************************************************************************)
(* map_block.rs: MapBlock                                                  *)
(***************************************************************************)
\* The locals of from_data in the order it binds them; `buffer` is the
\* decompressed stream the later ones are read from.
FromDataFields ==
    <<"map_format_version", "buffer", "flags", "lighting_complete", "timestamp",
      "name_id_mappings", "content_width", "params_width", "param0", "param1",
      "param2", "node_metadata", "static_objects", "node_timers">>

\* `let name = reader(&mut data)?;` on the parser state st, whose val holds
\* the locals bound so far and whose rest is the unread data.
Bind(st, name, r) == IF r.ok THEN Ok((name :> r.val) @@ st.val, r.rest) ELSE r

\* The test as it would be if it let every value pass.
ExpectNothing(st, name, value, kind) == st

\* `if local != value { return Err(kind) }`
Expect(st, name, value, kind) ==
    IF st.ok /\ st.val[name] # value THEN Err(kind, st.val[name]) ELSE st

\* `data` rebound to the decompressed stream, on the Result of the decoder.
Rebuffer(st, buffer) == IF buffer.ok THEN Ok(st.val, buffer.val) ELSE buffer

\* The statement of from_data that binds `name`.
FromDataStep(st, name) ==
    CASE name = "map_format_version" ->
             Expect(Bind(st, name, read_u8(st.rest)), name, MAP_FORMAT_VERSION,
                    "MapVersionError")
      [] name = "buffer" ->
             Rebuffer(st, ZstdDecode(st.rest))
      [] name = "flags" -> Bind(st, name, read_u8(st.rest))
      [] name = "lighting_complete" -> Bind(st, name, read_u16_be(st.rest))
      [] name = "timestamp" -> Bind(st, name, read_u32_be(st.rest))
      [] name = "name_id_mappings" -> Bind(st, name, read_name_id_mappings(st.rest))
      [] name = "content_width" ->
             Expect(Bind(st, name, read_u8(st.rest)), name, 2, "BlobMalformed")
      [] name = "params_width" ->
             Expect(Bind(st, name, read_u8(st.rest)), name, 2, "BlobMalformed")
      [] name = "param0" -> Bind(st, name, read_param0(st.rest))
      [] name = "param1" -> Bind(st, name, read_nodeparams(st.rest))
      [] name = "param2" -> Bind(st, name, read_nodeparams(st.rest))
      [] name = "node_metadata" -> Bind(st, name, read_node_metadata(st.rest))
      [] name = "static_objects" -> Bind(st, name, read_static_objects(st.rest))
      [] name = "node_timers" -> Bind(st, name, read_timers(st.rest))

RECURSIVE FromDataSteps(_, _)
\* The statements of from_data in order; the first Err is returned.
FromDataSteps(st, names) ==
    IF names = <<>> \/ ~st.ok THEN st
    ELSE FromDataSteps(FromDataStep(st, Head(names)), Tail(names))

\* MapBlock::from_data: Ok(block) or Err(MapBlockError).  Bytes left after
\* the node timers are not looked at.
from_data(data) == FromDataSteps(Ok(<<>>, data), FromDataFields)

\* MapBlock::to_binary; `order` is the iteration order of name_id_mappings.
to_binary(b, order) ==
    <<MAP_FORMAT_VERSION>> \o ZstdEncode(
        <<b.flags>>
            \o U16BE(b.lighting_complete)
            \o U32BE(b.timestamp)
            \o write_name_id_mappings(b.name_id_mappings, order)
            \o <<2>>
            \o <<2>>
            \o b.param0
            \o b.param1
            \o b.param2
            \o write_node_metadata(b.node_metadata)
            \o write_static_objects(b.static_objects)
            \o write_node_timers(b.node_timers))

\* MapBlock::unloaded as it would be with a timestamp of zero.
unloaded_timestamp_zero ==
    [map_format_version |-> 29,
     flags |-> 0,
     lighting_complete |-> 0,
     timestamp |-> <<0, 0>>,
     name_id_mappings |-> MapInsert(EmptyMappings, 0, CONTENT_IGNORE),
     content_width |-> 2,
     params_width |-> 2,
     param0 |-> SubSeq([i \in 1..(2 * MAPBLOCK_SIZE) |-> 0], 1, 2 * MAPBLOCK_SIZE),
     param1 |-> SubSeq([i \in 1..MAPBLOCK_SIZE |-> 0], 1, MAPBLOCK_SIZE),
     param2 |-> SubSeq([i \in 1..MAPBLOCK_SIZE |-> 0], 1, MAPBLOCK_SIZE),
     node_metadata |-> <<>>,
     static_objects |-> <<>>,
     node_timers |-> <<>>]

\* MapBlock::unloaded; the timestamp 0xffffffff as <<high, low>>.
unloaded ==
    [map_format_version |-> 29,
     flags |-> 0,
     lighting_complete |-> 0,
     timestamp |-> <<65535, 65535>>,
     name_id_mappings |-> MapInsert(EmptyMappings, 0, CONTENT_IGNORE),
     content_width |-> 2,
     params_width |-> 2,
     param0 |-> SubSeq([i \in 1..(2 * MAPBLOCK_SIZE) |-> 0], 1, 2 * MAPBLOCK_SIZE),
     param1 |-> SubSeq([i \in 1..MAPBLOCK_SIZE |-> 0], 1, MAPBLOCK_SIZE),
     param2 |-> SubSeq([i \in 1..MAPBLOCK_SIZE |-> 0], 1, MAPBLOCK_SIZE),
     node_metadata |-> <<>>,
     static_objects |-> <<>>,
     node_timers |-> <<>>]

content_from_id(b, content_id) ==
    IF content_id \in DOMAIN b.name_id_mappings
    THEN b.name_id_mappings[content_id]
    ELSE CONTENT_UNKNOWN

\* The index get_node_at and the setters use.
NodeIndex(relative_node_pos) == as_node_index(relative_node_pos) % MAPBLOCK_SIZE

get_node_at(b, relative_node_pos) ==
    LET index == NodeIndex(relative_node_pos)
    IN  [param0 |-> content_from_id(b, U16At(b.param0, index)),
         param1 |-> b.param1[index + 1],
         param2 |-> b.param2[index + 1]]

\* impl Add for Position and impl Mul<i16> for Position, i16 arithmetic as a
\* release build wraps it.
PosAdd(p, other) == Pos(AsI16(p.x + other.x), AsI16(p.y + other.y), AsI16(p.z + other.z))

PosMul(p, rhs) == Pos(AsI16(p.x * rhs), AsI16(p.y * rhs), AsI16(p.z * rhs))

\* NodeIter::from
NodeIter_from(mapblock, mapblock_position) ==
    [mapblock |-> mapblock, mapblock_position |-> mapblock_position, node_index |-> 0]

\* <NodeIter as Iterator>::next: the iterator after the call and the item,
\* <<"Some", pos, node>> or <<"None">>.
NodeIter_next(self) ==
    LET index == self.node_index
    IN  IF index < 4096
        THEN [self |-> [self EXCEPT !.node_index = index + 1],
              item |-> <<"Some",
                         PosAdd(PosMul(self.mapblock_position, MAPBLOCK_LENGTH),
                                from_node_index(index)),
                         [param0 |-> content_from_id(self.mapblock,
                                                     U16At(self.mapblock.param0, index)),
                          param1 |-> self.mapblock.param1[index + 1],
                          param2 |-> self.mapblock.param2[index + 1]]>>]
        ELSE [self |-> self, item |-> <<"None">>]

\* The IDs get_content_id may return: `find` on a HashMap returns any entry
\* whose value matches.
ContentIds(b, content) == {k \in DOMAIN b.name_id_mappings : b.name_id_mappings[k] = content}

\* MapBlock::add_content: the first vacant ID in u16::MIN..u16::MAX (65535
\* excluded); -1 stands for the panic.
FreshContentId(b) ==
    LET used == DOMAIN b.name_id_mappings
    IN  IF \A id \in 0..Cardinality(used) : id \in used \/ id >= 65535
        THEN -1
        ELSE CHOOSE id \in 0..Cardinality(used) :
                 /\ id \notin used
                 /\ id < 65535
                 /\ \A j \in 0..(id - 1) : j \in used

\* add_content as it would be if it always took ID 0.
add_content_takes_zero(b, content) ==
    <<[b EXCEPT !.name_id_mappings = MapInsert(@, 0, content)], 0>>

add_content(b, content) ==
    LET id == FreshContentId(b)
    IN  <<[b EXCEPT !.name_id_mappings = MapInsert(@, id, content)], id>>

\* MapBlock::get_content_id with the HashMap iterating its keys in `order`:
\* the first key whose value is the content, -1 for None.
get_content_id(b, content, order) ==
    LET hits == {i \in 1..Len(order) : b.name_id_mappings[order[i]] = content}
    IN  IF hits = {} THEN -1
        ELSE order[CHOOSE i \in hits : \A j \in hits : i <= j]

\* MapBlock::get_or_create_content_id with the HashMap iterating its keys in
\* `order`: <<block, id>>.
get_or_create_content_id_ordered(b, content, order) ==
    IF get_content_id(b, content, order) # -1
    THEN <<b, get_content_id(b, content, order)>>
    ELSE add_content(b, content)

\* set_content as it would be with the index taken from x alone.
set_content_x_only(b, relative_node_pos, content_id) ==
    [b EXCEPT !.param0 = U16Store(@, relative_node_pos.x, content_id)]

set_content(b, relative_node_pos, content_id) ==
    [b EXCEPT !.param0 = U16Store(@, NodeIndex(relative_node_pos), content_id)]

\* set_param1 as it would be if it wrote param2 as well.
set_param1_also_param2(b, relative_node_pos, param1) ==
    [b EXCEPT !.param1[NodeIndex(relative_node_pos) + 1] = param1,
              !.param2[NodeIndex(relative_node_pos) + 1] = param1]

set_param1(b, relative_node_pos, param1) ==
    [b EXCEPT !.param1[NodeIndex(relative_node_pos) + 1] = param1]

set_param2(b, relative_node_pos, param2) ==
    [b EXCEPT !.param2[NodeIndex(relative_node_pos) + 1] = param2]

\* get_or_create_content_id as it would be if it took a fresh ID without
\* entering the name.
get_or_create_content_id_not_entered(b, content) ==
    IF ContentIds(b, content) # {}
    THEN {<<b, id>> : id \in ContentIds(b, content)}
    ELSE {<<b, add_content(b, content)[2]>>}

\* MapBlock::get_or_create_content_id: the <<block, id>> outcomes.  With the
\* name present, any ID that maps to it may be found; otherwise add_content.
get_or_create_content_id(b, content) ==
    IF ContentIds(b, content) # {}
    THEN {<<b, id>> : id \in ContentIds(b, content)}
    ELSE {add_content(b, content)}

(***************************************************************************)
(* map_data.rs: the storage backend.  `db` is the blocks table, a function *)
(* from database keys to blobs.  `backend_ok` is the backend's answer to   *)
(* one query: FALSE is any failure of the database itself.                 *)
(***************************************************************************)
get_block_data(db, pos, backend_ok) ==
    IF ~backend_ok THEN Err("SqlError", "fetch_one")
    ELSE IF as_database_key(pos) \in DOMAIN db
    THEN Ok(db[as_database_key(pos)], <<>>)
    ELSE Err("MapBlockNonexistent", as_database_key(pos))

\* from_data on the Result of get_block_data
Decoded(data) == IF data.ok THEN from_data(data.val) ELSE data

\* MapData::get_mapblock
get_mapblock(db, pos, backend_ok) == Decoded(get_block_data(db, pos, backend_ok))

\* MapData::set_mapblock_data: the upsert
set_mapblock_data(db, pos, data) ==
    [k \in (DOMAIN db) \cup {as_database_key(pos)} |->
        IF k = as_database_key(pos) THEN data ELSE db[k]]

\* MapData::set_mapblock
set_mapblock(db, pos, block, order) == set_mapblock_data(db, pos, to_binary(block, order))

(***************************************************************************)
(* voxel_manip.rs.  `cache` is mapblock_cache: a function from the block   *)
(* positions cached to CacheEntry records [mapblock, tainted].  A handler  *)
(* is an operator from the state and its inputs to [cache, ret], ret being *)
(* the Result it returns; the setters, whose closure may have several      *)
(* outcomes, give the set of these records.                                *)
(***************************************************************************)
EmptyCache == [bp \in {} |-> <<>>]

CacheEntry(mapblock, tainted) == [mapblock |-> mapblock, tainted |-> tainted]

CacheInsert(cache, bp, entry) ==
    [k \in (DOMAIN cache) \cup {bp} |-> IF k = bp THEN entry ELSE cache[k]]

Out(c, r) == [cache |-> c, ret |-> r]

\* The Vacant arm as it would be with every Err answered by the unloaded
\* block.
EntryFromFetchAnyError(cache, mapblock_pos, fetched) ==
    IF fetched.ok
    THEN Out(CacheInsert(cache, mapblock_pos, CacheEntry(fetched.val, FALSE)),
             Ok(CacheEntry(fetched.val, FALSE), <<>>))
    ELSE Out(CacheInsert(cache, mapblock_pos, CacheEntry(unloaded, FALSE)),
             Ok(CacheEntry(unloaded, FALSE), <<>>))

\* The Vacant arm as it would be without the MapBlockNonexistent case.
EntryFromFetchNoFallback(cache, mapblock_pos, fetched) ==
    IF fetched.ok
    THEN Out(CacheInsert(cache, mapblock_pos, CacheEntry(fetched.val, FALSE)),
             Ok(CacheEntry(fetched.val, FALSE), <<>>))
    ELSE Out(cache, fetched)

\* The Vacant arm of get_entry on the Result of MapData::get_mapblock:
\* Ok(mapblock) and Err(MapBlockNonexistent) insert a clean entry, any
\* other Err is returned and nothing is inserted.
EntryFromFetch(cache, mapblock_pos, fetched) ==
    IF fetched.ok
    THEN Out(CacheInsert(cache, mapblock_pos, CacheEntry(fetched.val, FALSE)),
             Ok(CacheEntry(fetched.val, FALSE), <<>>))
    ELSE IF fetched.err[1] = "MapBlockNonexistent"
    THEN Out(CacheInsert(cache, mapblock_pos, CacheEntry(unloaded, FALSE)),
             Ok(CacheEntry(unloaded, FALSE), <<>>))
    ELSE Out(cache, fetched)

\* VoxelManip::get_entry
get_entry(cache, db, mapblock_pos, backend_ok) ==
    IF mapblock_pos \in DOMAIN cache
    THEN Out(cache, Ok(cache[mapblock_pos], <<>>))
    ELSE EntryFromFetch(cache, mapblock_pos, get_mapblock(db, mapblock_pos, backend_ok))

\* The mapblock of the entry get_entry has returned
MapblockOf(e) == IF e.ret.ok THEN Out(e.cache, Ok(e.ret.val.mapblock, <<>>)) ELSE e

\* get_mapblock as it would be if it set the flag of the entry.
get_mapblock_taints(cache, db, mapblock_pos, backend_ok) ==
    LET e == get_entry(cache, db, mapblock_pos, backend_ok)
    IN  IF e.ret.ok
        THEN Out([e.cache EXCEPT ![mapblock_pos].tainted = TRUE],
                 Ok(e.ret.val.mapblock, <<>>))
        ELSE e

\* VoxelManip::get_mapblock
vm_get_mapblock(cache, db, mapblock_pos, backend_ok) ==
    MapblockOf(get_entry(cache, db, mapblock_pos, backend_ok))

\* The node at relative_pos of the block get_mapblock has returned
NodeOf(m, relative_pos) ==
    IF m.ret.ok THEN Out(m.cache, Ok(get_node_at(m.ret.val, relative_pos), <<>>)) ELSE m

\* VoxelManip::get_node
get_node(cache, db, node_pos, backend_ok) ==
    NodeOf(vm_get_mapblock(cache, db, split_at_block(node_pos)[1], backend_ok),
           split_at_block(node_pos)[2])

\* The closures the set handlers pass to modify_mapblock.  A closure is the
\* record of what it captures, `fn` naming the handler that built it;
\* Closure(op, mapblock) is the set of blocks it may leave behind.
Closure(op, mapblock) ==
    CASE op.fn = "set_node" ->
             {set_param2(set_param1(set_content(o[1], op.relative_pos, o[2]),
                                    op.relative_pos, op.node.param1),
                         op.relative_pos, op.node.param2) :
                  o \in get_or_create_content_id(mapblock, op.node.param0)}
      [] op.fn = "set_content" ->
             {set_content(o[1], op.relative_pos, o[2]) :
                  o \in get_or_create_content_id(mapblock, op.content)}
      [] op.fn = "set_param1" -> {set_param1(mapblock, op.relative_pos, op.param1)}
      [] op.fn = "set_param2" -> {set_param2(mapblock, op.relative_pos, op.param2)}

\* The body of modify_mapblock on the result e of get_entry: the closure
\* runs on the entry's block and the entry is tainted.
ModifyEntry(e, blockpos, op) ==
    IF ~e.ret.ok THEN {e}
    ELSE {Out([e.cache EXCEPT ![blockpos] = CacheEntry(mb, TRUE)], Ok(<<>>, <<>>)) :
              mb \in Closure(op, e.ret.val.mapblock)}

\* VoxelManip::modify_mapblock
modify_mapblock(cache, db, blockpos, op, backend_ok) ==
    ModifyEntry(get_entry(cache, db, blockpos, backend_ok), blockpos, op)

\* VoxelManip::set_node
set_node(cache, db, node_pos, node, backend_ok) ==
    modify_mapblock(cache, db, split_at_block(node_pos)[1],
                    [fn |-> "set_node", relative_pos |-> split_at_block(node_pos)[2],
                     node |-> node],
                    backend_ok)

\* VoxelManip::set_content
vm_set_content(cache, db, node_pos, content, backend_ok) ==
    modify_mapblock(cache, db, split_at_block(node_pos)[1],
                    [fn |-> "set_content", relative_pos |-> split_at_block(node_pos)[2],
                     content |-> content],
                    backend_ok)

\* VoxelManip::set_param1
vm_set_param1(cache, db, node_pos, param1, backend_ok) ==
    modify_mapblock(cache, db, split_at_block(node_pos)[1],
                    [fn |-> "set_param1", relative_pos |-> split_at_block(node_pos)[2],
                     param1 |-> param1],
                    backend_ok)

\* VoxelManip::set_param2
vm_set_param2(cache, db, node_pos, param2, backend_ok) ==
    modify_mapblock(cache, db, split_at_block(node_pos)[1],
                    [fn |-> "set_param2", relative_pos |-> split_at_block(node_pos)[2],
                     param2 |-> param2],
                    backend_ok)

\* VoxelManip::is_in_cache
is_in_cache(cache, node_pos) == mapblock_at(node_pos) \in DOMAIN cache

\* Ok(()) for the entry get_entry has returned
Visited(e) == IF e.ret.ok THEN Out(e.cache, Ok(<<>>, <<>>)) ELSE e

\* VoxelManip::visit
visit(cache, db, node_pos, backend_ok) ==
    Visited(get_entry(cache, db, mapblock_at(node_pos), backend_ok))

Tainted(cache) == {bp \in DOMAIN cache : cache[bp].tainted}

RECURSIVE StoreAll(_, _, _, _)
\* The set_mapblock calls of one commit, for the entries in `todo`.
StoreAll(db, cache, todo, orders) ==
    IF todo = {} THEN db
    ELSE LET pos == CHOOSE bp \in todo : TRUE
         IN  StoreAll(set_mapblock(db, pos, cache[pos].mapblock, orders[pos]),
                      cache, todo \ {pos}, orders)

\* commit as it would be with the flag cleared before the store is tried.
commit_clears_first(cache, db, persisted, orders) ==
    [cache |-> [bp \in DOMAIN cache |-> CacheEntry(cache[bp].mapblock, FALSE)],
     db |-> StoreAll(db, cache, persisted, orders),
     ret |-> IF persisted = Tainted(cache) THEN Ok(<<>>, <<>>)
             ELSE Err("SqlError", "execute")]

\* commit as it would be without the `if cache_entry.tainted`: every
\* entry is stored.
commit_stores_all(cache, db, persisted, orders) ==
    [cache |-> [bp \in DOMAIN cache |-> CacheEntry(cache[bp].mapblock, FALSE)],
     db |-> StoreAll(db, cache, DOMAIN cache,
                     [bp \in DOMAIN cache |->
                         Ascending(DOMAIN cache[bp].mapblock.name_id_mappings)]),
     ret |-> Ok(<<>>, <<>>)]

\* commit as it would be with `cache_entry.tainted = false` left out.
commit_keeps_tainted(cache, db, persisted, orders) ==
    [cache |-> cache,
     db |-> StoreAll(db, cache, persisted, orders),
     ret |-> IF persisted = Tainted(cache) THEN Ok(<<>>, <<>>)
             ELSE Err("SqlError", "execute")]

\* VoxelManip::commit.  The loop visits the entries in the HashMap's order
\* and returns at the first store that fails: `persisted` is the set of
\* tainted entries stored before that, all of them when no store fails.
\* orders[bp] is the order in which bp's content table is written.
commit(cache, db, persisted, orders) ==
    [cache |-> [bp \in DOMAIN cache |->
                    IF bp \in persisted THEN CacheEntry(cache[bp].mapblock, FALSE)
                    ELSE cache[bp]],
     db |-> StoreAll(db, cache, persisted, orders),
     ret |-> IF persisted = Tainted(cache) THEN Ok(<<>>, <<>>)
             ELSE Err("SqlError", "execute")]

\* The table orders the stores of one commit may use.
CommitOrders(cache, persisted) ==
    {o \in [persisted -> UNION {IterOrders(cache[bp].mapblock.name_id_mappings) :
                                    bp \in persisted}] :
        \A bp \in persisted : o[bp] \in IterOrders(cache[bp].mapblock.name_id_mappings)}

(***************************************************************************)
(* The worlds the model starts from.  A stored block is written by the     *)
(* game engine in the format from_data reads.                              *)
(***************************************************************************)
\* b"air"
AIR == <<97, 105, 114>>

\* b"default:stone"
STONE == <<100, 101, 102, 97, 117, 108, 116, 58, 115, 116, 111, 110, 101>>

\* b"default:wood"
WOOD == <<100, 101, 102, 97, 117, 108, 116, 58, 119, 111, 111, 100>>

RECURSIVE EngineStaticObjects(_)
EngineStaticObjects(objects) ==
    IF objects = <<>> THEN <<>>
    ELSE LET object == Head(objects)
         IN  <<object.type_id>>
                 \o I32BE(object.x) \o I32BE(object.y) \o I32BE(object.z)
                 \o U16BE(Len(object.data)) \o object.data
                 \o EngineStaticObjects(Tail(objects))

RECURSIVE EngineTimers(_)
\* timers: a sequence of <<node index, timeout, elapsed>>
EngineTimers(timers) ==
    IF timers = <<>> THEN <<>>
    ELSE U16BE(Head(timers)[1]) \o I32BE(Head(timers)[2]) \o I32BE(Head(timers)[3])
             \o EngineTimers(Tail(timers))

\* A version 29 blob.  `b` has the fields of a MapBlock, with the
\* metadata section as bytes, static objects with their type_id and
\* timers as <<node index, timeout, elapsed>>; `order` is the order of the
\* content table's entries.
EngineBlob(b, order) ==
    <<MAP_FORMAT_VERSION>> \o ZstdEncode(
        <<b.flags>> \o U16BE(b.lighting_complete) \o U32BE(b.timestamp)
            \o <<0>> \o U16BE(Len(order)) \o WriteMappingEntries(b.name_id_mappings, order)
            \o <<2, 2>> \o b.param0 \o b.param1 \o b.param2
            \o b.node_metadata
            \o <<0>> \o U16BE(Len(b.static_objects)) \o EngineStaticObjects(b.static_objects)
            \o <<10>> \o U16BE(Len(b.node_timers)) \o EngineTimers(b.node_timers))

\* n zero bytes, as a sequence.
Zeros(n) == SubSeq([i \in 1..n |-> 0], 1, n)

\* {0: "air", 1: "default:stone"}
AirStone == MapInsert(MapInsert(EmptyMappings, 0, AIR), 1, STONE)

\* The node positions the handlers are called with: PosA lies in a stored
\* block, PosM in a block the backend does not have, PosX in a block whose
\* blob has format version 28.
PosA == Pos(1, 2, 3)

PosM == Pos(-1, -17, 40)

PosX == Pos(0, 16, 0)

NodePositions == {PosA, PosM, PosX}

BlockPositions == {mapblock_at(p) : p \in NodePositions}

SomeObject == [type_id |-> 7, x |-> 1000, y |-> -2000, z |-> 3, data |-> <<1, 2>>]

\* The block stored at (0, 0, 0): air, with stone at node indices 0 and 801,
\* one static object and one node timer.
StoredBlock ==
    EngineBlob([flags |-> 3,
                lighting_complete |-> 65535,
                timestamp |-> <<1, 2>>,
                name_id_mappings |-> AirStone,
                param0 |-> U16Store(U16Store(Zeros(2 * MAPBLOCK_SIZE), 0, 1), 801, 1),
                param1 |-> [Zeros(MAPBLOCK_SIZE) EXCEPT ![802] = 15],
                param2 |-> [Zeros(MAPBLOCK_SIZE) EXCEPT ![802] = 200],
                node_metadata |-> <<0>>,
                static_objects |-> <<SomeObject>>,
                node_timers |-> <<<<801, 5000, 100>>>>],
               <<0, 1>>)

OldVersionBlob == <<28, 1, 2, 3>>

\* The blocks table the model starts from.
World ==
    [k \in {as_database_key(Pos(0, 0, 0)), as_database_key(Pos(0, 1, 0))} |->
        IF k = as_database_key(Pos(0, 0, 0)) THEN StoredBlock ELSE OldVersionBlob]

Contents == {WOOD}

Nodes == {[param0 |-> WOOD, param1 |-> 9, param2 |-> 8]}

Param1Values == {9}

Param2Values == {8}

\* The number of set_node, set_content, set_param1 and set_param2 calls of
\* one run.
MaxSets == 2

(***************************************************************************)
(* The VoxelManip state machine                                            *)
(***************************************************************************)
VARIABLES
    db,       \* the backend's blocks table
    cache,    \* VoxelManip::mapblock_cache
    ret,      \* the error of the Result the last call returned, or NoError
    sets,     \* the set calls made
    call,     \* the last call of a function of positions.rs or map_block.rs
    result    \* what that call returned

vars == <<db, cache, ret, sets, call, result>>

NoCall == [fn |-> "none", arg |-> <<>>]

\* The answers the backend may give when block bp is accessed: it is only
\* asked on a cache miss.
BackendAnswers(bp) == IF bp \in DOMAIN cache THEN {TRUE} ELSE BOOLEAN

Init ==
    /\ db = World
    /\ cache = EmptyCache
    /\ ret = NoError
    /\ sets = 0
    /\ call = NoCall
    /\ result = <<>>

GetMapblock ==
    \E bp \in BlockPositions :
        \E backend_ok \in BackendAnswers(bp) :
            /\ cache' = vm_get_mapblock(cache, db, bp, backend_ok).cache
            /\ ret' = vm_get_mapblock(cache, db, bp, backend_ok).ret.err
            /\ UNCHANGED <<db, sets, call, result>>

GetNode ==
    \E p \in NodePositions :
        \E backend_ok \in BackendAnswers(mapblock_at(p)) :
            /\ cache' = get_node(cache, db, p, backend_ok).cache
            /\ ret' = get_node(cache, db, p, backend_ok).ret.err
            /\ UNCHANGED <<db, sets, call, result>>

Visit ==
    \E p \in NodePositions :
        \E backend_ok \in BackendAnswers(mapblock_at(p)) :
            /\ cache' = visit(cache, db, p, backend_ok).cache
            /\ ret' = visit(cache, db, p, backend_ok).ret.err
            /\ UNCHANGED <<db, sets, call, result>>

IsInCache ==
    \E p \in NodePositions :
        /\ is_in_cache(cache, p) \in BOOLEAN
        /\ ret' = NoError
        /\ UNCHANGED <<db, cache, sets, call, result>>

SetNode ==
    /\ sets < MaxSets
    /\ \E p \in NodePositions, node \in Nodes :
        \E backend_ok \in BackendAnswers(mapblock_at(p)) :
            \E o \in set_node(cache, db, p, node, backend_ok) :
                /\ cache' = o.cache
                /\ ret' = o.ret.err
                /\ sets' = sets + 1
                /\ UNCHANGED <<db, call, result>>

SetContent ==
    /\ sets < MaxSets
    /\ \E p \in NodePositions, content \in Contents :
        \E backend_ok \in BackendAnswers(mapblock_at(p)) :
            \E o \in vm_set_content(cache, db, p, content, backend_ok) :
                /\ cache' = o.cache
                /\ ret' = o.ret.err
                /\ sets' = sets + 1
                /\ UNCHANGED <<db, call, result>>

SetParam1 ==
    /\ sets < MaxSets
    /\ \E p \in NodePositions, param1 \in Param1Values :
        \E backend_ok \in BackendAnswers(mapblock_at(p)) :
            \E o \in vm_set_param1(cache, db, p, param1, backend_ok) :
                /\ cache' = o.cache
                /\ ret' = o.ret.err
                /\ sets' = sets + 1
                /\ UNCHANGED <<db, call, result>>

SetParam2 ==
    /\ sets < MaxSets
    /\ \E p \in NodePositions, param2 \in Param2Values :
        \E backend_ok \in BackendAnswers(mapblock_at(p)) :
            \E o \in vm_set_param2(cache, db, p, param2, backend_ok) :
                /\ cache' = o.cache
                /\ ret' = o.ret.err
                /\ sets' = sets + 1
                /\ UNCHANGED <<db, call, result>>

\* VoxelManip::commit: `persisted` are the entries stored before the first
\* failing store, all the tainted ones when no store fails.
Commit ==
    \E persisted \in SUBSET Tainted(cache) :
        \E orders \in CommitOrders(cache, persisted) :
            /\ cache' = commit(cache, db, persisted, orders).cache
            /\ db' = commit(cache, db, persisted, orders).db
            /\ ret' = commit(cache, db, persisted, orders).ret.err
            /\ UNCHANGED <<sets, call, result>>

\* drop(vm) followed by VoxelManip::new on the same backend
Reopen ==
    /\ cache' = EmptyCache
    /\ ret' = NoError
    /\ UNCHANGED <<db, sets, call, result>>

Next ==
    \/ GetMapblock
    \/ GetNode
    \/ Visit
    \/ IsInCache
    \/ SetNode
    \/ SetContent
    \/ SetParam1
    \/ SetParam2
    \/ Commit
    \/ Reopen

Spec == Init /\ [][Next]_vars

(***************************************************************************)
(* world.rs.  World metadata (world.mt) is a function from keys to values. *)
(* A handle to the map database is the record of the options it was opened *)
(* with.  Of the backends behind a cargo feature, sqlite3 is modelled.      *)
(***************************************************************************)
\* World::get_backend_name on the metadata read from world.mt.
get_backend_name(metadata) ==
    IF "backend" \in DOMAIN metadata THEN metadata["backend"] ELSE "sqlite3"

\* MapData::from_sqlite_file: the connect options.
from_sqlite_file(filename, read_only) ==
    Ok([backend |-> "sqlite3", filename |-> filename, immutable |-> read_only,
        create_if_missing |-> ~read_only], <<>>)

\* World::get_map_data_backend
get_map_data_backend(metadata, read_only) ==
    IF get_backend_name(metadata) = "sqlite3"
    THEN from_sqlite_file("map.sqlite", read_only)
    ELSE Err("UnknownBackend", get_backend_name(metadata))

\* World::get_map_data
get_map_data(metadata) == get_map_data_backend(metadata, TRUE)

\* World::get_mutable_map_data
get_mutable_map_data(metadata) == get_map_data_backend(metadata, TRUE)

\* World::get_voxel_manip: VoxelManip::new on the handle.
get_voxel_manip(metadata, writable) ==
    LET map == get_map_data_backend(metadata, ~writable)
    IN  IF map.ok THEN Ok([map |-> map.val, mapblock_cache |-> EmptyCache], <<>>) ELSE map

(***************************************************************************)
(* world.rs: keyvalue_to_uri_connectionstr.  A string is the sequence of   *)
(* its characters.                                                         *)
(***************************************************************************)
RECURSIVE SplitWhitespace(_, _)
\* str::split_whitespace; `word` is the word being read.
SplitWhitespace(s, word) ==
    IF s = <<>> THEN (IF word = <<>> THEN <<>> ELSE <<word>>)
    ELSE IF Head(s) = " "
    THEN (IF word = <<>> THEN <<>> ELSE <<word>>) \o SplitWhitespace(Tail(s), <<>>)
    ELSE SplitWhitespace(Tail(s), Append(word, Head(s)))

\* str::split_once('='): <<key, value>>, or <<>> for None.
SplitOnce(s) ==
    IF \E i \in 1..Len(s) : s[i] = "="
    THEN LET at == CHOOSE i \in 1..Len(s) : s[i] = "=" /\ \A j \in 1..(i - 1) : s[j] # "="
         IN  <<SubSeq(s, 1, at - 1), SubSeq(s, at + 1, Len(s))>>
    ELSE <<>>

RECURSIVE Collect(_, _)
\* collect() into a HashMap: a later pair replaces an earlier one of its key.
Collect(words, params) ==
    IF words = <<>> THEN params
    ELSE IF SplitOnce(Head(words)) = <<>> THEN Collect(Tail(words), params)
    ELSE Collect(Tail(words),
                 MapInsert(params, SplitOnce(Head(words))[1], SplitOnce(Head(words))[2]))

\* HashMap::remove: the map without the key.
Removed(params, key) == [k \in (DOMAIN params) \ {key} |-> params[k]]

DigitValue(c) ==
    CASE c = "0" -> 0 [] c = "1" -> 1 [] c = "2" -> 2 [] c = "3" -> 3 [] c = "4" -> 4
      [] c = "5" -> 5 [] c = "6" -> 6 [] c = "7" -> 7 [] c = "8" -> 8 [] c = "9" -> 9

Digits == {"0", "1", "2", "3", "4", "5", "6", "7", "8", "9"}

RECURSIVE ParseDigits(_, _)
\* The value of the digits, or -1 when it passes u16::MAX.
ParseDigits(s, acc) ==
    IF s = <<>> THEN acc
    ELSE IF acc * 10 + DigitValue(Head(s)) > 65535 THEN -1
    ELSE ParseDigits(Tail(s), acc * 10 + DigitValue(Head(s)))

\* str::parse::<u16>: an optional '+' and at least one digit.
ParseU16(s) ==
    LET digits == IF s # <<>> /\ Head(s) = "+" THEN Tail(s) ELSE s
    IN  IF digits = <<>> \/ \E i \in 1..Len(digits) : digits[i] \notin Digits
        THEN Err("ParseIntError", 0)
        ELSE IF ParseDigits(digits, 0) < 0 THEN Err("ParseIntError", 0)
        ELSE Ok(ParseDigits(digits, 0), <<>>)

RECURSIVE Decimal(_)
\* A port number as the URL shows it.
Decimal(n) ==
    IF n < 10 THEN <<CHOOSE c \in Digits : DigitValue(c) = n>>
    ELSE Append(Decimal(n \div 10), CHOOSE c \in Digits : DigitValue(c) = n % 10)

RECURSIVE QueryPairs(_, _, _)
\* query_pairs_mut().append_pair for the parameters left, in the order the
\* HashMap yields them; `query` is the query so far.
QueryPairs(params, order, query) ==
    IF order = <<>> THEN query
    ELSE IF Head(order) \notin DOMAIN params THEN QueryPairs(params, Tail(order), query)
    ELSE QueryPairs(params, Tail(order),
                    query \o (IF query # <<>> THEN <<"&">> ELSE <<>>)
                          \o Head(order) \o <<"=">> \o params[Head(order)])

\* Characters Url::set_host refuses in the host of a URL that is not special.
ForbiddenHostCharacters == {"/", ":", "@", "#", "?", "[", "]", "<", ">", "^", "|"}

STR_HOST == <<"h", "o", "s", "t">>

STR_USER == <<"u", "s", "e", "r">>

STR_PASSWORD == <<"p", "a", "s", "s", "w", "o", "r", "d">>

STR_DBNAME == <<"d", "b", "n", "a", "m", "e">>

STR_LOCALHOST == <<"l", "o", "c", "a", "l", "h", "o", "s", "t">>

STR_POSTGRESQL == <<"p", "o", "s", "t", "g", "r", "e", "s", "q", "l", ":", "/", "/">>

\* The URL as a string: the characters of the model's inputs need no
\* percent-encoding.
UrlString(host, port, user, password, path, query) ==
    STR_POSTGRESQL
        \o user
        \o (IF password # <<>> THEN <<":">> \o password ELSE <<>>)
        \o (IF user # <<>> \/ password # <<>> THEN <<"@">> ELSE <<>>)
        \o host \o <<":">> \o Decimal(port)
        \o (IF path # <<>> /\ Head(path) # "/" THEN <<"/">> \o path ELSE path)
        \o (IF query # <<>> THEN <<"?">> \o query ELSE <<>>)

\* keyvalue_to_uri_connectionstr; `order` is the order in which the HashMap
\* yields the parameters that are left for the query.  The port is looked up
\* under the key "host", which has been removed from the map by then: `port`
\* is the Option<Result<u16, _>> of the lookup, <<>> for None.
keyvalue_to_uri_connectionstr(keyword_value, order) ==
    LET params == Collect(SplitWhitespace(keyword_value, <<>>), EmptyMappings)
        host == IF STR_HOST \in DOMAIN params THEN params[STR_HOST] ELSE STR_LOCALHOST
        params1 == Removed(params, STR_HOST)
        port == IF STR_HOST \in DOMAIN params1 THEN <<ParseU16(params1[STR_HOST])>> ELSE <<>>
        params2 == Removed(params1, STR_HOST)
        user == IF STR_USER \in DOMAIN params2 THEN params2[STR_USER] ELSE <<>>
        params3 == Removed(params2, STR_USER)
        password == IF STR_PASSWORD \in DOMAIN params3 THEN params3[STR_PASSWORD] ELSE <<>>
        params4 == Removed(params3, STR_PASSWORD)
        path == IF STR_DBNAME \in DOMAIN params4 THEN params4[STR_DBNAME] ELSE <<>>
        params5 == Removed(params4, STR_DBNAME)
    IN  IF \E i \in 1..Len(host) : host[i] \in ForbiddenHostCharacters
        THEN Err("ParseError", host)
        ELSE IF port = <<>> THEN Err("port is not a valid number", 0)
        ELSE Ok(UrlString(host, IF port[1].ok THEN port[1].val ELSE 5432, user, password,
                          path, QueryPairs(params5, order, <<>>)),
                <<>>)

(***************************************************************************)
(* The functions of positions.rs and the MapBlock methods, called on their *)
(* own: each action is one call, on an input drawn from the sets below.    *)
(***************************************************************************)
\* Block coordinates: the ends of the 12-bit range and the values around 0.
KeyComponents == {-2048, -2047, -1, 0, 1, 2047}

KeyPositions ==
    {Pos(x, y, z) : x \in KeyComponents, y \in KeyComponents, z \in KeyComponents}

\* The keys of those positions, and the two keys of the test simple_math.
DatabaseKeys == {as_database_key(p) : p \in KeyPositions} \cup {I64(0, 134270984), I64(0, -184549374)}

NodeIndices == 0..(MAPBLOCK_SIZE - 1)

\* Coordinates of a block-relative position, in [0,16) and just outside.
RelativeComponents == {-1, 0, 1, 15, 16}

RelativePositions ==
    {Pos(x, y, z) : x \in RelativeComponents, y \in RelativeComponents,
                    z \in RelativeComponents}

\* Node coordinates: the ends of the i16 range and the block borders at 0.
I16Components == {-32768, -32767, -17, -16, -15, -1, 0, 1, 15, 16, 17, 32767}

I16Positions ==
    {Pos(x, y, z) : x \in I16Components, y \in I16Components, z \in I16Components}

\* A content table with all of 0..65534 in use and 65535 free.
NearlyFullTable == [id \in 0..65534 |-> U16BE(id)]

\* Content tables: the unloaded block's, a dense one, one with ID 1 free, one
\* with ID 0 free, and one that names "air" twice.
ContentTables ==
    {unloaded.name_id_mappings,
     AirStone,
     MapInsert(MapInsert(EmptyMappings, 0, AIR), 2, STONE),
     MapInsert(EmptyMappings, 1, AIR),
     MapInsert(MapInsert(EmptyMappings, 0, AIR), 1, AIR)}

\* A content table with all of 1..65535 in use and 0 free: the table of a
\* blob whose count field is 65535.
FullButZeroTable == [id \in 1..65535 |-> U16BE(id)]

\* <<block, content name>> for add_content: the name is not in the table.
AddContentInputs ==
    {<<[unloaded EXCEPT !.name_id_mappings = t], WOOD>> :
        t \in ContentTables \cup {FullButZeroTable, NearlyFullTable}}

\* The permutations of the keys of a content table among these sequences.
OrdersOf(table, orders) ==
    {order \in orders :
        /\ Len(order) = Cardinality(DOMAIN table)
        /\ {order[i] : i \in 1..Len(order)} = DOMAIN table}

ContentNames == {AIR, STONE, WOOD}

\* <<block, iteration order of its content table, content name>>
ContentInputs ==
    {<<[unloaded EXCEPT !.name_id_mappings = t], order, content>> :
        t \in ContentTables,
        order \in {<<0>>, <<1>>, <<0, 1>>, <<1, 0>>, <<0, 2>>, <<2, 0>>},
        content \in ContentNames}
    \cup {<<[unloaded EXCEPT !.name_id_mappings = NearlyFullTable],
            [i \in 1..65535 |-> i - 1], WOOD>>}

\* Blocks with node timers: on the diagonal y = z, and off it.
TimerBlocks ==
    {[unloaded EXCEPT !.node_timers =
          <<[position |-> Pos(0, 0, 0), timeout |-> 0, elapsed |-> 0],
            [position |-> Pos(15, 15, 15), timeout |-> 2147483647, elapsed |-> -1],
            [position |-> Pos(3, 7, 7), timeout |-> 5000, elapsed |-> 100]>>],
     [unloaded EXCEPT !.node_timers =
          <<[position |-> Pos(1, 2, 3), timeout |-> 5000, elapsed |-> 100]>>]}

SomeVar == [key |-> <<107>>, value |-> <<118, 49>>, is_private |-> FALSE]

\* A block with the metadata of two nodes.
MetadataBlock ==
    [unloaded EXCEPT !.node_metadata =
        <<[position |-> Pos(1, 2, 2), vars |-> <<SomeVar>>, inventory |-> END_INVENTORY],
          [position |-> Pos(0, 0, 0), vars |-> <<>>,
           inventory |-> <<76, 10>> \o END_INVENTORY]>>]

CodecBlocks == {unloaded, MetadataBlock} \cup TimerBlocks

\* The metadata section the engine writes for MetadataBlock.
EngineMetadata ==
    <<2>> \o U16BE(2)
        \o U16BE(545) \o U32BE(<<0, 1>>)
            \o U16BE(1) \o <<107>> \o U32BE(<<0, 2>>) \o <<118, 49>> \o <<0>>
            \o END_INVENTORY
        \o U16BE(0) \o U32BE(<<0, 0>>)
            \o <<76, 10>> \o END_INVENTORY

\* A stored block with the metadata of two nodes and a timer.
MetadataBlob ==
    EngineBlob([flags |-> 0,
                lighting_complete |-> 0,
                timestamp |-> <<0, 7>>,
                name_id_mappings |-> AirStone,
                param0 |-> Zeros(2 * MAPBLOCK_SIZE),
                param1 |-> Zeros(MAPBLOCK_SIZE),
                param2 |-> Zeros(MAPBLOCK_SIZE),
                node_metadata |-> EngineMetadata,
                static_objects |-> <<>>,
                node_timers |-> <<<<801, 5000, 100>>>>],
               <<1, 0>>)

\* Version bytes other than 29.
OtherVersions == {0, 28, 30, 255}

\* Blobs: stored blocks, blobs of another version with nothing, with bytes
\* that are no Zstandard frame and with a well-formed frame behind the
\* version byte, streams that end early, and the stored block with its frame
\* cut short and with a byte of the magic number changed.
\* The bytes from_data tests, as a well-formed block has them: the version
\* byte and the entries of the content table, the two widths, the metadata
\* section, the version byte of the static objects and the declared size of
\* a timer record.
WellFormed ==
    [mappings_version |-> 0,
     mappings |-> U16BE(2) \o U16BE(0) \o U16BE(3) \o AIR \o U16BE(1) \o U16BE(3) \o AIR,
     content_width |-> 2,
     params_width |-> 2,
     node_metadata |-> <<0>>,
     static_objects_version |-> 0,
     timer_data_length |-> 10]

\* A metadata section of one record with one variable whose is-private byte
\* is `is_private`.
MetadataWithPrivate(is_private) ==
    <<2>> \o U16BE(1) \o U16BE(0) \o U32BE(<<0, 1>>)
        \o U16BE(1) \o <<107>> \o U32BE(<<0, 2>>) \o <<118, 49>> \o <<is_private>>
        \o END_INVENTORY

\* The blob of an otherwise empty block with the tested bytes of s.
StructureBlob(s) ==
    <<MAP_FORMAT_VERSION>> \o ZstdEncode(
        <<0>> \o U16BE(0) \o U32BE(<<0, 0>>)
            \o <<s.mappings_version>> \o s.mappings
            \o <<s.content_width, s.params_width>>
            \o Zeros(2 * MAPBLOCK_SIZE) \o Zeros(MAPBLOCK_SIZE) \o Zeros(MAPBLOCK_SIZE)
            \o s.node_metadata
            \o <<s.static_objects_version>> \o U16BE(0)
            \o <<s.timer_data_length>> \o U16BE(0))

\* One tested byte wrong at a time; the content table with the id 0 twice.
Violations ==
    {[WellFormed EXCEPT !.mappings_version = v] : v \in {1, 255}}
    \cup {[WellFormed EXCEPT !.mappings =
               U16BE(2) \o U16BE(0) \o U16BE(3) \o AIR \o U16BE(0) \o U16BE(3) \o AIR]}
    \cup {[WellFormed EXCEPT !.content_width = v] : v \in {0, 1, 3}}
    \cup {[WellFormed EXCEPT !.params_width = v] : v \in {0, 1, 3}}
    \cup {[WellFormed EXCEPT !.node_metadata = MetadataWithPrivate(v)] : v \in {2, 255}}
    \cup {[WellFormed EXCEPT !.static_objects_version = v] : v \in {1, 255}}
    \cup {[WellFormed EXCEPT !.timer_data_length = v] : v \in {0, 9, 11}}

StructureBlobs ==
    {StructureBlob(s) : s \in Violations}
    \cup {StructureBlob(WellFormed),
          StructureBlob([WellFormed EXCEPT !.node_metadata = MetadataWithPrivate(1)])}

\* The block that is iterated, as decoded from the stored blob, and its
\* position (that of the test count_nodes).
IterBlock == from_data(StoredBlock).val

IterBlockPos == Pos(-13, -8, 2)

TruncatedBlob == Take(StoredBlock, Len(StoredBlock) - 100)

CorruptBlob == <<MAP_FORMAT_VERSION, 40, 181, 47, 0>> \o Drop(StoredBlock, 5)

Blobs ==
    {StoredBlock, MetadataBlob, OldVersionBlob, <<>>, <<MAP_FORMAT_VERSION>>,
     <<MAP_FORMAT_VERSION, 1, 2, 3>>, TruncatedBlob, CorruptBlob}
    \cup StructureBlobs
    \cup {<<v>> \o rest : v \in OtherVersions,
                          rest \in {<<>>, <<1, 2, 3>>, Drop(MetadataBlob, 1)}}

AsDatabaseKey ==
    /\ call.fn = "none"
    /\ \E p \in KeyPositions :
           /\ call' = [fn |-> "as_database_key", arg |-> p]
           /\ result' = as_database_key(p)
           /\ UNCHANGED <<db, cache, ret, sets>>

FromDatabaseKey ==
    /\ call.fn = "none"
    /\ \E i \in DatabaseKeys :
           /\ call' = [fn |-> "from_database_key", arg |-> i]
           /\ result' = from_database_key(i)
           /\ UNCHANGED <<db, cache, ret, sets>>

FromNodeIndex ==
    /\ call.fn = "none"
    /\ \E node_index \in NodeIndices :
           /\ call' = [fn |-> "from_node_index", arg |-> node_index]
           /\ result' = from_node_index(node_index)
           /\ UNCHANGED <<db, cache, ret, sets>>

AsNodeIndex ==
    /\ call.fn = "none"
    /\ \E p \in RelativePositions :
           /\ call' = [fn |-> "as_node_index", arg |-> p]
           /\ result' = as_node_index(p)
           /\ UNCHANGED <<db, cache, ret, sets>>

SplitAtBlock ==
    /\ call.fn = "none"
    /\ \E p \in I16Positions :
           /\ call' = [fn |-> "split_at_block", arg |-> p]
           /\ result' = split_at_block(p)
           /\ UNCHANGED <<db, cache, ret, sets>>

\* get_or_create_content_id on a block whose content table iterates in the
\* given order; result is <<block after the call, id>>.
GetOrCreateContentId ==
    /\ call.fn = "none"
    /\ \E input \in ContentInputs :
           /\ input[2] \in OrdersOf(input[1].name_id_mappings, {input[2]})
           /\ call' = [fn |-> "get_or_create_content_id",
                       arg |-> [block |-> input[1], order |-> input[2],
                                content |-> input[3]]]
           /\ result' = get_or_create_content_id_ordered(input[1], input[3], input[2])
           /\ UNCHANGED <<db, cache, ret, sets>>

\* add_content as get_or_create_content_id calls it, for a name that is
\* not in the table; result is <<block after the call, id>>.
AddContent ==
    /\ call.fn = "none"
    /\ \E input \in AddContentInputs :
           /\ call' = [fn |-> "add_content", arg |-> [block |-> input[1], content |-> input[2]]]
           /\ result' = add_content(input[1], input[2])
           /\ UNCHANGED <<db, cache, ret, sets>>

FromData ==
    /\ call.fn = "none"
    /\ \E data \in Blobs :
           /\ call' = [fn |-> "from_data", arg |-> data]
           /\ result' = from_data(data)
           /\ UNCHANGED <<db, cache, ret, sets>>

ToBinary ==
    /\ call.fn = "none"
    /\ \E b \in CodecBlocks :
           \E order \in IterOrders(b.name_id_mappings) :
               /\ call' = [fn |-> "to_binary", arg |-> [block |-> b, order |-> order]]
               /\ result' = to_binary(b, order)
               /\ UNCHANGED <<db, cache, ret, sets>>

\* The metadata of worlds: without a backend entry, with sqlite3 and with a
\* backend the library does not know.
WorldMetadata ==
    {[k \in {} |-> ""], [k \in {"backend"} |-> "sqlite3"], [k \in {"backend"} |-> "dummy"]}

GetMapData ==
    /\ call.fn = "none"
    /\ \E metadata \in WorldMetadata :
           /\ call' = [fn |-> "get_map_data", arg |-> metadata]
           /\ result' = get_map_data(metadata)
           /\ UNCHANGED <<db, cache, ret, sets>>

GetMutableMapData ==
    /\ call.fn = "none"
    /\ \E metadata \in WorldMetadata :
           /\ call' = [fn |-> "get_mutable_map_data", arg |-> metadata]
           /\ result' = get_mutable_map_data(metadata)
           /\ UNCHANGED <<db, cache, ret, sets>>

GetVoxelManip ==
    /\ call.fn = "none"
    /\ \E metadata \in WorldMetadata, writable \in BOOLEAN :
           /\ call' = [fn |-> "get_voxel_manip",
                       arg |-> [metadata |-> metadata, writable |-> writable]]
           /\ result' = get_voxel_manip(metadata, writable)
           /\ UNCHANGED <<db, cache, ret, sets>>

STR_PORT == <<"p", "o", "r", "t">>

STR_SSLMODE == <<"s", "s", "l", "m", "o", "d", "e">>

\* Connection strings: the three of the tests (the malformed port in ASCII),
\* and ones with a host alone, ports at and around the ends of u16, a host
\* that is no host, and a parameter that goes to the query.
ConnectionStrings ==
    {<<>>,
     <<"p", "o", "r", "t", "=", "a", "b", "c">>,
     <<"p", "o", "r", "t", "=", "1", "5", "4", "3", "2", " ", "h", "o", "s", "t", "=", "l", "o", "c", "a", "l", "h", "o", "r", "s", "t", " ", "d", "b", "n", "a", "m", "e", "=", "m", "t", "d", "b", " ", "u", "s", "e", "r", "=", "u", " ", "p", "a", "s", "s", "w", "o", "r", "d", "=", "p">>,
     <<"h", "o", "s", "t", "=", "d", "b">>,
     <<"p", "o", "r", "t", "=", "6", "5", "5", "3", "5">>,
     <<"p", "o", "r", "t", "=", "6", "5", "5", "3", "6">>,
     <<"h", "o", "s", "t", "=", "a", "/", "b", " ", "p", "o", "r", "t", "=", "1">>,
     <<"s", "s", "l", "m", "o", "d", "e", "=", "r", "e", "q", "u", "i", "r", "e", " ", "p", "o", "r", "t", "=", "5", "4", "3", "3">>}

QueryOrders == {<<STR_PORT, STR_SSLMODE>>, <<STR_SSLMODE, STR_PORT>>}

KeyvalueToUriConnectionstr ==
    /\ call.fn = "none"
    /\ \E keyword_value \in ConnectionStrings, order \in QueryOrders :
           /\ call' = [fn |-> "keyvalue_to_uri_connectionstr",
                       arg |-> [keyword_value |-> keyword_value, order |-> order]]
           /\ result' = keyvalue_to_uri_connectionstr(keyword_value, order)
           /\ UNCHANGED <<db, cache, ret, sets>>

\* NodeIter::from: the iterator is held as the argument of the calls of next
\* that follow.
NodeIterFrom ==
    /\ call.fn = "none"
    /\ call' = [fn |-> "NodeIter", arg |-> NodeIter_from(IterBlock, IterBlockPos)]
    /\ result' = <<>>
    /\ UNCHANGED <<db, cache, ret, sets>>

NodeIterNext ==
    /\ call.fn = "NodeIter"
    /\ call' = [call EXCEPT !.arg = NodeIter_next(call.arg).self]
    /\ result' = NodeIter_next(call.arg).item
    /\ UNCHANGED <<db, cache, ret, sets>>

Unloaded ==
    /\ call.fn = "none"
    /\ call' = [fn |-> "unloaded", arg |-> <<>>]
    /\ result' = unloaded
    /\ UNCHANGED <<db, cache, ret, sets>>

\* The call has returned: the next one may be made.
Return ==
    /\ call.fn # "none"
    /\ call' = NoCall
    /\ result' = <<>>
    /\ UNCHANGED <<db, cache, ret, sets>>

CallNext ==
    \/ AsDatabaseKey
    \/ FromDatabaseKey
    \/ FromNodeIndex
    \/ AsNodeIndex
    \/ SplitAtBlock
    \/ GetOrCreateContentId
    \/ AddContent
    \/ FromData
    \/ ToBinary
    \/ Unloaded
    \/ NodeIterFrom
    \/ NodeIterNext
    \/ GetMapData
    \/ GetMutableMapData
    \/ GetVoxelManip
    \/ KeyvalueToUriConnectionstr
    \/ Return

CallSpec == Init /\ [][CallNext]_vars

(***************************************************************************)
(* Properties.  A property of a handler is stated for every state the      *)
(* machine reaches and every input of the handler: the handlers are the    *)
(* operators the actions apply.                                            *)
(***************************************************************************)
\* The results of the four set handlers at node position p.
SetResults(p, backend_ok) ==
    UNION ({set_node(cache, db, p, node, backend_ok) : node \in Nodes}
           \cup {vm_set_content(cache, db, p, content, backend_ok) : content \in Contents}
           \cup {vm_set_param1(cache, db, p, param1, backend_ok) : param1 \in Param1Values}
           \cup {vm_set_param2(cache, db, p, param2, backend_ok) : param2 \in Param2Values})

\* The results of get_mapblock, get_node and visit at node position p.
ReadResults(p, backend_ok) ==
    {vm_get_mapblock(cache, db, mapblock_at(p), backend_ok),
     get_node(cache, db, p, backend_ok),
     visit(cache, db, p, backend_ok)}

\* The results of commit, whichever stores fail.
CommitResults ==
    UNION {{commit(cache, db, persisted, orders) :
                orders \in CommitOrders(cache, persisted)} :
           persisted \in SUBSET Tainted(cache)}

\* C1: a cache entry goes Absent -> Clean -> Dirty -> Clean.  A read that
\* succeeds on a block not yet cached creates its entry clean; a set that
\* succeeds leaves the entry of its block cached and dirty (is_in_cache is
\* true); a commit that succeeds leaves every entry clean; and no handler
\* removes an entry or cleans one, a commit apart.
C1_EntryStateMachine ==
    /\ \A p \in NodePositions, backend_ok \in BOOLEAN :
           /\ \A o \in ReadResults(p, backend_ok) :
                  /\ DOMAIN cache \subseteq DOMAIN o.cache
                  /\ Tainted(o.cache) = Tainted(cache)
                  /\ o.ret.ok => mapblock_at(p) \in DOMAIN o.cache
           /\ \A o \in SetResults(p, backend_ok) :
                  /\ DOMAIN cache \subseteq DOMAIN o.cache
                  /\ Tainted(cache) \subseteq Tainted(o.cache)
                  /\ o.ret.ok => /\ is_in_cache(o.cache, p)
                                 /\ mapblock_at(p) \in Tainted(o.cache)
    /\ \A o \in CommitResults :
           /\ DOMAIN o.cache = DOMAIN cache
           /\ o.ret.ok => Tainted(o.cache) = {}

\* An entry that was created for a block the backend does not have, made
\* dirty by a set and stored by a commit is clean in the cache.
C1_Witness ==
    /\ mapblock_at(PosM) \in DOMAIN cache
    /\ ~cache[mapblock_at(PosM)].tainted
    /\ as_database_key(mapblock_at(PosM)) \in DOMAIN db
    /\ sets > 0
    /\ ret = NoError

\* The database keys whose blob differs between two states of the table.
ChangedKeys(before, after) ==
    {k \in (DOMAIN before) \cup (DOMAIN after) :
        \/ k \notin DOMAIN before
        \/ k \notin DOMAIN after
        \/ before[k] # after[k]}

\* C2: the backend is written only by commit, and only for blocks whose
\* entry is dirty.  A step that changes the blocks table is no step of a
\* read, visit, is_in_cache, set or drop: it is a commit, and the keys it
\* changes are keys of entries that were dirty before it.  So a drop after
\* sets without a commit leaves the table as it was.
C2_OnlyCommitWritesDirty ==
    [][db' # db =>
           /\ ~(GetMapblock \/ GetNode \/ Visit \/ IsInCache \/ SetNode \/ SetContent
                    \/ SetParam1 \/ SetParam2 \/ Reopen)
           /\ Commit
           /\ ChangedKeys(db, db') \subseteq
                  {as_database_key(bp) : bp \in Tainted(cache)}]_vars

\* Both set calls of a run were made, nothing was committed, and the
\* VoxelManip was dropped: the backend holds what it held at the start.
C2_Witness ==
    /\ sets = MaxSets
    /\ cache = EmptyCache
    /\ db = World

\* The node position relative to its block.
Relative(p) == split_at_block(p)[2]

\* C3: read-your-writes inside one VoxelManip.  Whenever set_node(p, n)
\* succeeds, get_node(p) on the resulting cache succeeds and returns n:
\* content string, param1 and param2; and set_content, set_param1 and
\* set_param2 are each seen by get_node(p), before any commit.
C3_ReadYourWrites ==
    \A p \in NodePositions, backend_ok \in BOOLEAN, later_ok \in BOOLEAN :
        /\ \A node \in Nodes : \A o \in set_node(cache, db, p, node, backend_ok) :
               o.ret.ok => get_node(o.cache, db, p, later_ok).ret = Ok(node, <<>>)
        /\ \A content \in Contents :
               \A o \in vm_set_content(cache, db, p, content, backend_ok) :
                   o.ret.ok => /\ get_node(o.cache, db, p, later_ok).ret.ok
                               /\ get_node(o.cache, db, p, later_ok).ret.val.param0 = content
        /\ \A param1 \in Param1Values :
               \A o \in vm_set_param1(cache, db, p, param1, backend_ok) :
                   o.ret.ok => /\ get_node(o.cache, db, p, later_ok).ret.ok
                               /\ get_node(o.cache, db, p, later_ok).ret.val.param1 = param1
        /\ \A param2 \in Param2Values :
               \A o \in vm_set_param2(cache, db, p, param2, backend_ok) :
                   o.ret.ok => /\ get_node(o.cache, db, p, later_ok).ret.ok
                               /\ get_node(o.cache, db, p, later_ok).ret.val.param2 = param2

\* A set on the stored block has succeeded and is not committed: the cached
\* node at PosA is wood where the backend's block has stone.
C3_Witness ==
    /\ mapblock_at(PosA) \in Tainted(cache)
    /\ db = World
    /\ ret = NoError
    /\ get_node_at(cache[mapblock_at(PosA)].mapblock, Relative(PosA)).param0 = WOOD
    /\ get_node(EmptyCache, db, PosA, TRUE).ret.val.param0 = STONE

\* The number of entries of the content table stored at block bp, 0 when
\* the backend has no such block.
StoredTableSize(table, bp) ==
    IF as_database_key(bp) \in DOMAIN table /\ from_data(table[as_database_key(bp)]).ok
    THEN Cardinality(DOMAIN from_data(table[as_database_key(bp)]).val.name_id_mappings)
    ELSE 0

\* What a fresh VoxelManip sees at p once the result r of a commit is in
\* the backend.
FreshGetNode(r, p) == get_node(EmptyCache, r.db, p, TRUE).ret

\* C4: committed writes persist.  Whenever set_content(p, c) succeeds and
\* the commit after it succeeds, a fresh VoxelManip on the same backend
\* gets content c from get_node(p), and the content table stored for the
\* block has one entry more than the cached block had before the set when
\* c was not in it, and as many when it was.
C4_CommittedWritesPersist ==
    \A p \in NodePositions, content \in Contents, backend_ok \in BOOLEAN :
        \A o \in vm_set_content(cache, db, p, content, backend_ok) :
            o.ret.ok =>
                \A orders \in CommitOrders(o.cache, Tainted(o.cache)) :
                    /\ FreshGetNode(commit(o.cache, db, Tainted(o.cache), orders), p).ok
                    /\ FreshGetNode(commit(o.cache, db, Tainted(o.cache), orders), p)
                           .val.param0 = content
                    /\ StoredTableSize(commit(o.cache, db, Tainted(o.cache), orders).db,
                                       mapblock_at(p))
                           = Cardinality(DOMAIN get_entry(cache, db, mapblock_at(p),
                                                          backend_ok)
                                                    .ret.val.mapblock.name_id_mappings)
                             + (IF ContentIds(get_entry(cache, db, mapblock_at(p),
                                                        backend_ok).ret.val.mapblock,
                                              content) = {}
                                THEN 1 ELSE 0)

\* Each of the MAPBLOCK_SIZE nodes of the unloaded block resolves to "ignore".
UnloadedIsIgnore ==
    \A index \in 0..(MAPBLOCK_SIZE - 1) :
        content_from_id(unloaded, U16At(unloaded.param0, index)) = CONTENT_IGNORE

\* C5: the missing-block fallback.  When the backend answers and has no
\* block at a position that is not cached, get_entry succeeds and caches a
\* clean entry holding the unloaded block, every node of which resolves to
\* content "ignore", and get_node on a position of that block returns
\* content "ignore".
C5_MissingBlockFallback ==
    /\ UnloadedIsIgnore
    /\ \A p \in NodePositions :
           (mapblock_at(p) \notin DOMAIN cache
                /\ as_database_key(mapblock_at(p)) \notin DOMAIN db) =>
               /\ get_entry(cache, db, mapblock_at(p), TRUE).ret
                      = Ok(CacheEntry(unloaded, FALSE), <<>>)
               /\ get_entry(cache, db, mapblock_at(p), TRUE).cache
                      = CacheInsert(cache, mapblock_at(p), CacheEntry(unloaded, FALSE))
               /\ get_node(cache, db, p, TRUE).ret.ok
               /\ get_node(cache, db, p, TRUE).ret.val.param0 = CONTENT_IGNORE

\* The block of PosM, which the backend does not have, is in the cache
\* after a read: clean, and the unloaded block.
C5_Witness ==
    /\ as_database_key(mapblock_at(PosM)) \notin DOMAIN db
    /\ mapblock_at(PosM) \in DOMAIN cache
    /\ cache[mapblock_at(PosM)] = CacheEntry(unloaded, FALSE)
    /\ ret = NoError

\* What commit has stored for the entries in `persisted`: for each, the
\* encoding of its cached block.
Stored(before, table, persisted, orders) ==
    \A bp \in persisted :
        /\ as_database_key(bp) \in DOMAIN table
        /\ table[as_database_key(bp)] = to_binary(before[bp].mapblock, orders[bp])

\* C6: partial commit on failure.  When a store of commit fails, commit
\* returns the backend's error; the entries stored before the failure are
\* clean and their encoded blocks are in the backend; every other entry,
\* the failing one included, is as it was, dirty with its block intact, and
\* the backend's other keys are as they were.  A later commit that succeeds
\* stores exactly the entries that stayed dirty and leaves all clean.
C6_PartialCommit ==
    \A persisted \in SUBSET Tainted(cache) :
        \A orders \in CommitOrders(cache, persisted) :
            persisted # Tainted(cache) =>
                /\ commit(cache, db, persisted, orders).ret = Err("SqlError", "execute")
                /\ Tainted(commit(cache, db, persisted, orders).cache)
                       = Tainted(cache) \ persisted
                /\ \A bp \in DOMAIN cache :
                       /\ commit(cache, db, persisted, orders).cache[bp].mapblock
                              = cache[bp].mapblock
                       /\ bp \notin persisted =>
                              commit(cache, db, persisted, orders).cache[bp] = cache[bp]
                /\ Stored(cache, commit(cache, db, persisted, orders).db, persisted, orders)
                /\ ChangedKeys(db, commit(cache, db, persisted, orders).db)
                       \subseteq {as_database_key(bp) : bp \in persisted}
                /\ \A later \in CommitOrders(cache, Tainted(cache) \ persisted) :
                       /\ commit(commit(cache, db, persisted, orders).cache,
                                 commit(cache, db, persisted, orders).db,
                                 Tainted(cache) \ persisted, later).ret.ok
                       /\ Tainted(commit(commit(cache, db, persisted, orders).cache,
                                         commit(cache, db, persisted, orders).db,
                                         Tainted(cache) \ persisted, later).cache) = {}
                       /\ Stored(cache,
                                 commit(commit(cache, db, persisted, orders).cache,
                                        commit(cache, db, persisted, orders).db,
                                        Tainted(cache) \ persisted, later).db,
                                 Tainted(cache) \ persisted, later)
                       /\ ChangedKeys(commit(cache, db, persisted, orders).db,
                                      commit(commit(cache, db, persisted, orders).cache,
                                             commit(cache, db, persisted, orders).db,
                                             Tainted(cache) \ persisted, later).db)
                              \subseteq {as_database_key(bp) :
                                             bp \in Tainted(cache) \ persisted}

\* A commit has failed after storing the block of PosM: that entry is clean
\* and in the backend, the entry of PosA is still dirty and the backend
\* still holds the block it held for it at the start.
C6_Witness ==
    /\ ret = <<"SqlError", "execute">>
    /\ mapblock_at(PosM) \in DOMAIN cache
    /\ ~cache[mapblock_at(PosM)].tainted
    /\ as_database_key(mapblock_at(PosM)) \in DOMAIN db
    /\ mapblock_at(PosA) \in Tainted(cache)
    /\ db[as_database_key(mapblock_at(PosA))] = StoredBlock

\* C7: a failing cache miss.  When the block of p is not cached and the
\* fetch or the decode fails with anything but MapBlockNonexistent, each
\* of get_mapblock, get_node, visit, set_node, set_content, set_param1 and
\* set_param2 returns that error and leaves the cache as it was: no entry
\* is inserted and no entry changes.  The next access asks the backend
\* again: it gets what an access that had not failed before gets.
C7_FailedMissLeavesCache ==
    \A p \in NodePositions, backend_ok \in BOOLEAN :
        (/\ mapblock_at(p) \notin DOMAIN cache
         /\ ~get_mapblock(db, mapblock_at(p), backend_ok).ok
         /\ get_mapblock(db, mapblock_at(p), backend_ok).err[1] # "MapBlockNonexistent") =>
            \A o \in ReadResults(p, backend_ok) \cup SetResults(p, backend_ok) :
                /\ ~o.ret.ok
                /\ o.ret.err = get_mapblock(db, mapblock_at(p), backend_ok).err
                /\ o.cache = cache
                /\ \A later_ok \in BOOLEAN :
                       LET fetched == get_mapblock(db, mapblock_at(p), later_ok)
                           again == get_entry(o.cache, db, mapblock_at(p), later_ok).ret
                       IN  /\ fetched.ok => again = Ok(CacheEntry(fetched.val, FALSE), <<>>)
                           /\ (~fetched.ok /\ fetched.err[1] = "MapBlockNonexistent")
                                  => again = Ok(CacheEntry(unloaded, FALSE), <<>>)
                           /\ (~fetched.ok /\ fetched.err[1] # "MapBlockNonexistent")
                                  => again = fetched

\* An access to the block of PosX, whose blob has format version 28, has
\* failed: the block is not cached and the entry of PosA's block is there.
C7_Witness ==
    /\ ret = <<"MapVersionError", 28>>
    /\ mapblock_at(PosX) \notin DOMAIN cache
    /\ mapblock_at(PosA) \in DOMAIN cache

\* C8: the read-only operations do not mutate.  get_mapblock, get_node and
\* visit leave every cached entry as it is, block and flag, and add at most
\* the entry of the accessed block, clean; a step of one of them or of
\* is_in_cache leaves the backend as it is, and a step of is_in_cache
\* leaves the cache as it is.
C8_ReadsDoNotMutate ==
    /\ [](\A p \in NodePositions, backend_ok \in BOOLEAN :
              \A o \in ReadResults(p, backend_ok) :
                  /\ \A bp \in DOMAIN cache :
                         bp \in DOMAIN o.cache /\ o.cache[bp] = cache[bp]
                  /\ (DOMAIN o.cache) \ (DOMAIN cache) \subseteq {mapblock_at(p)}
                  /\ Tainted(o.cache) = Tainted(cache))
    /\ [][/\ (GetMapblock \/ GetNode \/ Visit \/ IsInCache) => db' = db
          /\ IsInCache => cache' = cache]_vars

\* Blocks were read and nothing was set: the cache holds clean entries and
\* the backend holds what it held at the start.
C8_Witness ==
    /\ sets = 0
    /\ DOMAIN cache = {mapblock_at(PosA), mapblock_at(PosM)}
    /\ Tainted(cache) = {}
    /\ db = World

\* C9: the codec round trip of the voxel data.  For every cached block b
\* (a block from_data or unloaded has produced, with the sets applied) and
\* every order of its content table, from_data(to_binary(b)) succeeds and
\* has b's flags, lighting_complete, timestamp, content table, param0,
\* param1 and param2.
C9_VoxelRoundTrip ==
    \A bp \in DOMAIN cache :
        \A order \in IterOrders(cache[bp].mapblock.name_id_mappings) :
            LET b == cache[bp].mapblock
                again == from_data(to_binary(b, order))
            IN  /\ again.ok
                /\ again.val.flags = b.flags
                /\ again.val.lighting_complete = b.lighting_complete
                /\ again.val.timestamp = b.timestamp
                /\ again.val.name_id_mappings = b.name_id_mappings
                /\ again.val.param0 = b.param0
                /\ again.val.param1 = b.param1
                /\ again.val.param2 = b.param2

\* C10: static objects survive encode and decode.  For every cached block
\* b, what write_static_objects writes is what read_static_objects reads
\* back as b's objects, to the last byte, and from_data(to_binary(b)) has
\* b's static objects: as many, in the same order, with the same type id,
\* coordinates and payload.
C10_StaticObjectsRoundTrip ==
    \A bp \in DOMAIN cache :
        LET b == cache[bp].mapblock
        IN  /\ read_static_objects(write_static_objects(b.static_objects))
                   = Ok(b.static_objects, <<>>)
            /\ \A order \in IterOrders(b.name_id_mappings) :
                   /\ from_data(to_binary(b, order)).ok
                   /\ from_data(to_binary(b, order)).val.static_objects = b.static_objects

\* The block a set at p runs on: the cached one, or the one fetched.
BlockBefore(p, backend_ok) == get_entry(cache, db, mapblock_at(p), backend_ok).ret.val.mapblock

\* The node positions get_node is asked for after a set at p: the positions
\* of the calls, the neighbours of p along each axis and the positions one
\* block further.
Probes(p) ==
    NodePositions
    \cup {Pos(p.x + 1, p.y, p.z), Pos(p.x, p.y + 1, p.z), Pos(p.x, p.y, p.z + 1),
          Pos(p.x + 16, p.y, p.z), Pos(p.x, p.y, p.z - 16)}

\* The param0 image `other` differs from `image` at most in the element at
\* `index`.
SameButU16(image, other, index) == other = U16Store(image, index, U16At(other, index))

\* The param1 or param2 array `other` differs from `array` at most in the
\* element at `index`.
SameButU8(array, other, index) == other = [array EXCEPT ![index + 1] = other[index + 1]]

\* Every ID of the content table `before` has its name in `after`.
KeepsIds(before, after) ==
    \A id \in DOMAIN before : id \in DOMAIN after /\ after[id] = before[id]

\* What a successful set at p leaves as it was: the other entries of the
\* cache, the other nodes of the block of p, the IDs of its content table,
\* and what get_node returns for the positions q # p it succeeded for.
Frame(p, backend_ok, o) ==
    LET before == BlockBefore(p, backend_ok)
        after == o.cache[mapblock_at(p)].mapblock
    IN  /\ \A bp \in (DOMAIN cache) \ {mapblock_at(p)} : o.cache[bp] = cache[bp]
        /\ (DOMAIN o.cache) \ (DOMAIN cache) \subseteq {mapblock_at(p)}
        /\ SameButU16(before.param0, after.param0, NodeIndex(Relative(p)))
        /\ SameButU8(before.param1, after.param1, NodeIndex(Relative(p)))
        /\ SameButU8(before.param2, after.param2, NodeIndex(Relative(p)))
        /\ KeepsIds(before.name_id_mappings, after.name_id_mappings)
        /\ \A q \in Probes(p) \ {p} :
               get_node(cache, db, q, TRUE).ret.ok =>
                   get_node(o.cache, db, q, TRUE).ret = get_node(cache, db, q, TRUE).ret

Names(table) == {table[k] : k \in DOMAIN table}

\* Every param0 value of the block has an entry in its content table.
NoDanglingId(b) ==
    \A index \in 0..(MAPBLOCK_SIZE - 1) : U16At(b.param0, index) \in DOMAIN b.name_id_mappings

\* The blocks the backend starts with, where they decode, and the unloaded
\* block have no dangling ID and no entry named "unknown".
SourcesHaveNoDanglingId ==
    /\ NoDanglingId(unloaded)
    /\ CONTENT_UNKNOWN \notin Names(unloaded.name_id_mappings)
    /\ \A k \in DOMAIN World :
           from_data(World[k]).ok =>
               /\ NoDanglingId(from_data(World[k]).val)
               /\ CONTENT_UNKNOWN \notin Names(from_data(World[k]).val.name_id_mappings)

\* C28: no dangling content IDs.  The blocks of the backend and the unloaded
\* block having an entry for every param0 value, every param0 value of
\* every cached block has an entry in its block's content table, in every
\* state that reads, sets and commits lead to; no string set being
\* "unknown", no table names it, so no node resolves to it.
C28_NoDanglingIds ==
    SourcesHaveNoDanglingId =>
        \A bp \in DOMAIN cache :
            /\ NoDanglingId(cache[bp].mapblock)
            /\ CONTENT_UNKNOWN \notin Names(cache[bp].mapblock.name_id_mappings)

\* C28 witness: wood has been set in the block the backend does not have:
\* the cached block has the new ID 1 at the node and the entry 1 -> wood.
C28_Witness ==
    /\ SourcesHaveNoDanglingId
    /\ mapblock_at(PosM) \in Tainted(cache)
    /\ U16At(cache[mapblock_at(PosM)].mapblock.param0, NodeIndex(Relative(PosM))) = 1
    /\ cache[mapblock_at(PosM)].mapblock.name_id_mappings
           = MapInsert(MapInsert(EmptyMappings, 0, CONTENT_IGNORE), 1, WOOD)

(***************************************************************************)
(* Properties of the functions called on their own (CallSpec): `call` is   *)
(* the call just made and `result` what it returned.                       *)
(***************************************************************************)
\* The statements of from_data up to and including the one that binds `name`.
FieldsUpTo(name) ==
    SubSeq(FromDataFields, 1, CHOOSE i \in 1..Len(FromDataFields) : FromDataFields[i] = name)

\* What from_data has not yet read of a blob when `name` has been bound.
UnreadAfter(data, name) == FromDataSteps(Ok(<<>>, data), FieldsUpTo(name)).rest

InBlock(p) == p.x \in 0..15 /\ p.y \in 0..15 /\ p.z \in 0..15

\* C11: node timers survive encode and decode.  For a block b whose timers
\* lie at block-relative positions with every coordinate in [0,16),
\* from_data(to_binary(b)) has as many timers as b, in the same order, each
\* with the same position, timeout and elapsed; and for a decoded blob,
\* writing the decoded timers again gives the bytes of the timer section
\* that was read (the same u16 node indices).
C11_TimersRoundTrip ==
    /\ (/\ call.fn = "to_binary"
        /\ \A i \in 1..Len(call.arg.block.node_timers) :
               InBlock(call.arg.block.node_timers[i].position)) =>
           /\ from_data(result).ok
           /\ from_data(result).val.node_timers = call.arg.block.node_timers
    /\ (call.fn = "from_data" /\ result.ok) =>
           LET written == write_node_timers(result.val.node_timers)
           IN  written = Take(UnreadAfter(call.arg, "static_objects"), Len(written))

\* The version and the count at the head of the metadata section of a blob.
MetadataHeader(data) ==
    LET section == UnreadAfter(data, "param2")
    IN  [version |-> read_u8(section).val,
         count |-> read_u16_be(read_u8(section).rest).val]

\* C12: node metadata is decoded.  When the metadata section of a decoded
\* blob has version 2 and count n, the block from_data returns has n
\* metadata records (for the stored block with two records: the positions,
\* variables and inventories the engine wrote, in stream order), and they
\* are still there after the block is written and read again.
C12_MetadataDecoded ==
    (/\ call.fn = "from_data"
     /\ result.ok
     /\ MetadataHeader(call.arg).version = 2) =>
        /\ Len(result.val.node_metadata) = MetadataHeader(call.arg).count
        /\ call.arg = MetadataBlob =>
               result.val.node_metadata = MetadataBlock.node_metadata
        /\ \A order \in IterOrders(result.val.name_id_mappings) :
               /\ from_data(to_binary(result.val, order)).ok
               /\ Len(from_data(to_binary(result.val, order)).val.node_metadata)
                      = MetadataHeader(call.arg).count

\* C13: content interning.  When get_or_create_content_id returns an ID:
\* the table maps the ID to the name; a name that was in the table leaves
\* the table as it was, a name that was not gets an ID that was unused and is
\* the only entry added; no entry that existed is changed or removed; and a
\* second call with the same name returns the same ID and changes nothing
\* (the table iterating as before if it was not changed, in any order if it
\* was).
C13_ContentInterning ==
    (call.fn = "get_or_create_content_id" /\ result[2] # -1) =>
        LET before == call.arg.block.name_id_mappings
            after == result[1].name_id_mappings
            id == result[2]
            content == call.arg.content
        IN  /\ id \in DOMAIN after
            /\ after[id] = content
            /\ content \in Names(before) => after = before
            /\ content \notin Names(before) =>
                   /\ id \notin DOMAIN before
                   /\ DOMAIN after = DOMAIN before \cup {id}
                   /\ Cardinality(DOMAIN after) = Cardinality(DOMAIN before) + 1
            /\ \A k \in DOMAIN before : k \in DOMAIN after /\ after[k] = before[k]
            /\ \A order \in (IF after = before THEN {call.arg.order} ELSE IterOrders(after)) :
                   get_or_create_content_id_ordered(result[1], content, order)
                       = <<result[1], id>>

\* C13 witness: a name that is not in the table {0: air, 2: stone} has been
\* given the unused ID 1, and a name that is twice in the table has been
\* found.
C13_Witness ==
    /\ call.fn = "get_or_create_content_id"
    /\ call.arg.content = WOOD
    /\ DOMAIN call.arg.block.name_id_mappings = {0, 2}
    /\ result[2] = 1
    /\ result[1].name_id_mappings[1] = WOOD

Unused(table) == (0..65535) \ DOMAIN table

\* C14: content-ID capacity.  get_or_create_content_id for a name that is
\* not in the table succeeds whenever one of the IDs 0..65535 is unused: it
\* returns the smallest unused ID and inserts the name under it.  It fails
\* only when all 65536 IDs are used.
C14_ContentIdCapacity ==
    (/\ call.fn = "get_or_create_content_id"
     /\ call.arg.content \notin Names(call.arg.block.name_id_mappings)) =>
        LET unused == Unused(call.arg.block.name_id_mappings)
        IN  IF unused = {} THEN result[2] = -1
            ELSE /\ result[2] \in unused
                 /\ \A id \in unused : result[2] <= id
                 /\ result[2] \in DOMAIN result[1].name_id_mappings
                 /\ result[1].name_id_mappings[result[2]] = call.arg.content

\* C15: node-index addressing is invertible.  For every node index i in
\* 0..4095, from_node_index(i) is the position (i & 0xF, (i >> 4) & 0xF,
\* (i >> 8) & 0xF), and as_node_index of it is i.
C15_NodeIndexInverse ==
    call.fn = "from_node_index" =>
        /\ result = Pos(call.arg % 16, (call.arg \div 16) % 16, (call.arg \div 256) % 16)
        /\ as_node_index(result) = call.arg

\* C16: the database key round trip.  For every block position p with
\* components in [-2048, 2047], from_database_key(as_database_key(p)) = p;
\* for every key k of such a position, as_database_key(from_database_key(k))
\* = k.
C16_DatabaseKeyRoundTrip ==
    /\ call.fn = "as_database_key" => from_database_key(result) = call.arg
    /\ call.fn = "from_database_key" => as_database_key(result) = call.arg

\* C16 witness: the key of a position with negative components has been
\* computed and is a negative number; and a negative key has been decoded to
\* a position with a negative component.
C16_Witness ==
    \/ /\ call.fn = "as_database_key"
       /\ call.arg = Pos(-1, -2048, -1)
       /\ result[1] < 0
    \/ /\ call.fn = "from_database_key"
       /\ call.arg = I64(0, -184549374)
       /\ result = Pos(2, 0, -11)

\* Bits 12n .. 12n+11 of a key in two's complement, n in 0..2.
Field(i, n) ==
    CASE n = 0 -> i[2] % 4096
      [] n = 1 -> (i[2] \div 4096) % 4096
      [] n = 2 -> i[1] % 4096

\* A 12-bit field as a signed number: 2048 and above are negatives.
SignExtend12(f) == IF f >= 2048 THEN f - 4096 ELSE f

\* 1 if v is negative, else 0
Borrow(v) == IF v < 0 THEN 1 ELSE 0

\* C17 as claimed: the key holds x in bits 0-11, y in bits 12-23 and z in
\* bits 24-35, each as a signed 12-bit field, and from_database_key returns
\* the sign-extended fields of the key as x, y and z.
C17_KeyBitLayout ==
    /\ call.fn = "as_database_key" =>
           /\ SignExtend12(Field(result, 0)) = call.arg.x
           /\ SignExtend12(Field(result, 1)) = call.arg.y
           /\ SignExtend12(Field(result, 2)) = call.arg.z
    /\ call.fn = "from_database_key" =>
           result = Pos(SignExtend12(Field(call.arg, 0)),
                        SignExtend12(Field(call.arg, 1)),
                        SignExtend12(Field(call.arg, 2)))

\* C17 as amended: the key is the sum x + 4096*y + 16777216*z of signed
\* terms, so a negative lower component borrows from the field above: bits
\* 0-11 hold x, bits 12-23 hold y less one if x is negative, bits 24-35 hold
\* z less one if that y field went negative, each modulo 4096.
\* from_database_key undoes the borrow: x is the sign-extended field 0, y the
\* sign-extended field 1 plus one if x is negative, z the sign-extended field
\* 2 plus one if y less the borrow of x is negative (modulo 4096).  Where no
\* lower component is negative the fields are the components.
C17_KeyLayoutWithBorrow ==
    /\ call.fn = "as_database_key" =>
           LET p == call.arg
               y_field == p.y - Borrow(p.x)
               z_field == p.z - Borrow(y_field)
           IN  /\ Field(result, 0) = p.x % 4096
               /\ Field(result, 1) = y_field % 4096
               /\ Field(result, 2) = z_field % 4096
               /\ (p.x >= 0 /\ p.y >= 0) =>
                      /\ SignExtend12(Field(result, 0)) = p.x
                      /\ SignExtend12(Field(result, 1)) = p.y
                      /\ SignExtend12(Field(result, 2)) = p.z
    /\ call.fn = "from_database_key" =>
           LET x == SignExtend12(Field(call.arg, 0))
               y == SignExtend12((Field(call.arg, 1) + Borrow(x)) % 4096)
               z == SignExtend12((Field(call.arg, 2) + Borrow(y - Borrow(x))) % 4096)
           IN  result = Pos(x, y, z)

\* C17 witness: the key of a position with a negative x and a key with a
\* borrowed y field have been handled: the y field of the key of (-1, 0, 0)
\* is 4095, and the key -1 decodes to (-1, 0, 0).
C17_Witness ==
    \/ /\ call.fn = "as_database_key"
       /\ call.arg = Pos(-1, 0, 0)
       /\ Field(result, 1) = 4095
    \/ /\ call.fn = "from_database_key"
       /\ Field(call.arg, 0) = 4095
       /\ Field(call.arg, 1) = 4095
       /\ result.x = -1
       /\ result.y = 0

IsI16(v) == v \in -32768..32767

\* C18: block splitting.  For every node position p with i16 components,
\* split_at_block(p) = (b, r) where b = mapblock_at(p) is the per-axis floor
\* of p / 16 (16*b <= p < 16*b + 16), every component of r is in [0,16),
\* b*16 + r = p, and neither b*16 nor p - b*16 leaves the i16 range.
C18_BlockSplitting ==
    call.fn = "split_at_block" =>
        LET p == call.arg
            b == result[1]
            r == result[2]
        IN  /\ b = mapblock_at(p)
            /\ \A axis \in {"x", "y", "z"} :
                   /\ 16 * b[axis] <= p[axis]
                   /\ p[axis] < 16 * b[axis] + 16
                   /\ r[axis] \in 0..15
                   /\ b[axis] * 16 + r[axis] = p[axis]
                   /\ IsI16(b[axis])
                   /\ IsI16(b[axis] * MAPBLOCK_LENGTH)
                   /\ IsI16(p[axis] - b[axis] * MAPBLOCK_LENGTH)

\* C18 witness: a node with x = -1, the lowest y and the highest z has been
\* split: block x = -1 with relative x = 15, block y = -2048, block z = 2047.
C18_Witness ==
    /\ call.fn = "split_at_block"
    /\ call.arg = Pos(-1, -32768, 32767)
    /\ result[1] = Pos(-1, -2048, 2047)
    /\ result[2] = Pos(15, 0, 15)

\* C19: node-index wrap-around.  as_node_index returns x + 16*y + 256*z
\* reduced modulo 4096, a value in 0..4095, for every relative position,
\* also with a coordinate outside [0,16) or negative; so the index the timer
\* writer puts in the stream is below 4096.
C19_NodeIndexWraps ==
    call.fn = "as_node_index" =>
        /\ result = (call.arg.x + 16 * call.arg.y + 256 * call.arg.z) % 4096
        /\ result \in 0..4095
        /\ write_node_timers(<<[position |-> call.arg, timeout |-> 0, elapsed |-> 0]>>)
               = <<10, 0, 1>> \o U16BE((call.arg.x + 16 * call.arg.y + 256 * call.arg.z) % 4096)
                     \o <<0, 0, 0, 0, 0, 0, 0, 0>>

\* C20: the version check.  Decoding a blob whose first byte v is not 29
\* fails with MapVersionError(v), whatever follows the byte (nothing, bytes
\* that are no Zstandard frame, or the frame of a well-formed block), and
\* returns no block.
C20_VersionCheck ==
    (/\ call.fn = "from_data"
     /\ call.arg # <<>>
     /\ call.arg[1] # 29) =>
        /\ ~result.ok
        /\ result.err = <<"MapVersionError", call.arg[1]>>
        /\ result.val = <<>>

\* C20 witness: blobs of version 28 have been refused, one with bytes behind
\* the version byte that cannot be decompressed and one with the frame of a
\* well-formed block behind it.
C20_Witness ==
    /\ call.fn = "from_data"
    /\ call.arg # <<>>
    /\ call.arg[1] = 28
    /\ \/ Drop(call.arg, 1) = <<1, 2, 3>>
       \/ from_data(<<MAP_FORMAT_VERSION>> \o Drop(call.arg, 1)).ok
    /\ result.err = <<"MapVersionError", 28>>

\* C21 as claimed: decoding a version-29 blob whose remainder is a truncated
\* or corrupt Zstandard stream fails with BlobMalformed and returns no block.
C21_DecompressionMalformed ==
    (/\ call.fn = "from_data"
     /\ call.arg # <<>>
     /\ call.arg[1] = MAP_FORMAT_VERSION
     /\ ~ZstdDecode(Drop(call.arg, 1)).ok) =>
        /\ ~result.ok
        /\ result.err[1] = "BlobMalformed"
        /\ result.val = <<>>

\* C21: decoding a version-29 blob whose remainder is a truncated or corrupt
\* Zstandard stream fails with ReadError, the kind the decoder's io::Error
\* converts to, and returns no block.
C21_DecompressionReadError ==
    (/\ call.fn = "from_data"
     /\ call.arg # <<>>
     /\ call.arg[1] = MAP_FORMAT_VERSION
     /\ ~ZstdDecode(Drop(call.arg, 1)).ok) =>
        /\ ~result.ok
        /\ result.err[1] = "ReadError"
        /\ result.val = <<>>

\* C21 witness: the stored block with its frame cut short has been refused;
\* the whole frame decodes.
C21_Witness ==
    /\ call.fn = "from_data"
    /\ call.arg = TruncatedBlob
    /\ from_data(StoredBlock).ok
    /\ ~result.ok

\* from_data when it has bound `name`.
Prefix(data, name) == FromDataSteps(Ok(<<>>, data), FieldsUpTo(name))

\* from_data has bound `name` without an error and the byte it reads next
\* is not `value`.
NextByteIsNot(data, name, value) ==
    /\ Prefix(data, name).ok
    /\ Prefix(data, name).rest # <<>>
    /\ Prefix(data, name).rest[1] # value

RECURSIVE EntryIds(_, _)
\* The ids of the first n entries of a content table that are wholly there.
EntryIds(entries, n) ==
    IF n = 0 \/ Len(entries) < 4 \/ Len(entries) < 4 + entries[3] * 256 + entries[4]
    THEN <<>>
    ELSE <<entries[1] * 256 + entries[2]>>
             \o EntryIds(Drop(entries, 4 + entries[3] * 256 + entries[4]), n - 1)

\* The content table of the blob has version 0 and holds an id twice.
RepeatsAnId(data) ==
    LET table == Prefix(data, "timestamp").rest
        ids == EntryIds(Drop(table, 3), table[2] * 256 + table[3])
    IN  /\ Prefix(data, "timestamp").ok
        /\ Len(table) >= 3
        /\ table[1] = 0
        /\ \E i, j \in 1..Len(ids) : i < j /\ ids[i] = ids[j]

\* The metadata section of the blob has version 2 and a first record whose
\* first variable is wholly there with an is-private byte that is not 0 or 1.
BadPrivateByte(data) ==
    LET section == Prefix(data, "param2").rest
        key_length == section[10] * 256 + section[11]
        value_length == section[14 + key_length] * 256 + section[15 + key_length]
        at == 16 + key_length + value_length
    IN  /\ Prefix(data, "param2").ok
        /\ Len(section) >= 11
        /\ section[1] = 2
        /\ section[2] * 256 + section[3] >= 1
        /\ <<section[6], section[7], section[8], section[9]>> # <<0, 0, 0, 0>>
        /\ Len(section) >= 15 + key_length
        /\ section[12 + key_length] = 0 /\ section[13 + key_length] = 0
        /\ Len(section) >= at
        /\ section[at] > 1

\* C22: structural violations are reported as BlobMalformed.  Decoding a
\* blob that is well-formed up to a content-table version byte that is not
\* 0, a content id that is repeated, a content_width or a params_width that
\* is not 2, an is-private byte that is not 0 or 1, a static-object version
\* byte that is not 0, or a timer record size that is not 10, fails with
\* BlobMalformed and returns no block.
C22_StructuralViolations ==
    (/\ call.fn = "from_data"
     /\ \/ NextByteIsNot(call.arg, "timestamp", 0)
        \/ RepeatsAnId(call.arg)
        \/ NextByteIsNot(call.arg, "name_id_mappings", 2)
        \/ NextByteIsNot(call.arg, "content_width", 2)
        \/ BadPrivateByte(call.arg)
        \/ NextByteIsNot(call.arg, "node_metadata", 0)
        \/ NextByteIsNot(call.arg, "static_objects", 10)) =>
        /\ ~result.ok
        /\ result.err[1] = "BlobMalformed"
        /\ result.val = <<>>

\* C22 witness: a blob that is well-formed up to a declared timer record
\* size of 11 has been refused; with the size 10 it decodes.
C22_Witness ==
    /\ call.fn = "from_data"
    /\ call.arg = StructureBlob([WellFormed EXCEPT !.timer_data_length = 11])
    /\ NextByteIsNot(call.arg, "static_objects", 10)
    /\ from_data(StructureBlob(WellFormed)).ok
    /\ result.err = <<"BlobMalformed", 11>>

\* The fields of a block that the format fixes are as from_data demands
\* them, the content table is {0: "ignore"}, and flags, lighting_complete,
\* the node arrays and the three lists are zero or empty.
UnloadedButTimestamp(b) ==
    /\ b.map_format_version = MAP_FORMAT_VERSION
    /\ b.content_width = 2 /\ b.params_width = 2
    /\ DOMAIN b.name_id_mappings = {0}
    /\ b.name_id_mappings[0] = CONTENT_IGNORE
    /\ b.flags = 0
    /\ b.lighting_complete = 0
    /\ b.param0 = Zeros(2 * MAPBLOCK_SIZE)
    /\ b.param1 = Zeros(MAPBLOCK_SIZE)
    /\ b.param2 = Zeros(MAPBLOCK_SIZE)
    /\ b.node_metadata = <<>>
    /\ b.static_objects = <<>>
    /\ b.node_timers = <<>>

\* C23 as claimed: the unloaded block has the content table {0: "ignore"}
\* and flags 0, lighting_complete 0, timestamp 0, every param0, param1 and
\* param2 element 0, no node metadata, no static objects and no node timers.
C23_UnloadedAllZero ==
    call.fn = "unloaded" =>
        /\ UnloadedButTimestamp(result)
        /\ result.timestamp = <<0, 0>>

\* C23: the unloaded block has the content table {0: "ignore"}, flags 0,
\* lighting_complete 0, every param0, param1 and param2 element 0, no node
\* metadata, no static objects and no node timers; its timestamp is
\* 0xffffffff.
C23_UnloadedBlock ==
    call.fn = "unloaded" =>
        /\ UnloadedButTimestamp(result)
        /\ result.timestamp = <<65535, 65535>>

\* C23 witness: unloaded has been called and returned a block whose nodes
\* are all "ignore".
C23_Witness ==
    /\ call.fn = "unloaded"
    /\ \A p \in {Pos(0, 0, 0), Pos(15, 15, 15)} : get_node_at(result, p).param0 = CONTENT_IGNORE
    /\ result.timestamp # <<0, 0>>

\* The item the iterator yields at node index j.
ItemAt(self, j) == NodeIter_next([self EXCEPT !.node_index = j]).item

\* C24: iterating the nodes of the mapblock at block position B.  Each item
\* is the i-th of at most 4096, with the node stored at index i and the
\* world position B*16 + (i & 0xF, (i>>4) & 0xF, (i>>8) & 0xF); the iterator
\* ends after item 4095, when the 4096 positions yielded are all different.
C24_NodeIteration ==
    (call.fn = "NodeIter" /\ result # <<>>) =>
        LET i == call.arg.node_index - 1
            B == call.arg.mapblock_position
        IN  /\ result[1] = "Some" =>
                   /\ i \in 0..4095
                   /\ result[2] = Pos(B.x * 16 + (i % 16),
                                      B.y * 16 + ((i \div 16) % 16),
                                      B.z * 16 + ((i \div 256) % 16))
                   /\ result[3].param0 = content_from_id(call.arg.mapblock,
                                              U16At(call.arg.mapblock.param0, i))
                   /\ result[3].param1 = call.arg.mapblock.param1[i + 1]
                   /\ result[3].param2 = call.arg.mapblock.param2[i + 1]
            /\ result[1] = "None" =>
                   /\ call.arg.node_index = 4096
                   /\ Cardinality({ItemAt(call.arg, j)[2] : j \in 0..4095}) = 4096

\* C25: get_mutable_map_data returns a writable handle.  It opens the
\* backend with read_only = false, as get_voxel_manip(true) does (the handle
\* is the one that VoxelManip holds), whereas get_map_data opens it
\* read-only.
C25_MutableHandleIsWritable ==
    /\ (call.fn = "get_mutable_map_data" /\ result.ok) =>
           /\ ~result.val.immutable
           /\ result.val = get_voxel_manip(call.arg, TRUE).val.map
    /\ (call.fn = "get_map_data" /\ result.ok) => result.val.immutable

\* The parameters of a connection string.
ParamsOf(keyword_value) == Collect(SplitWhitespace(keyword_value, <<>>), EmptyMappings)

\* The value of a parameter, or a default when it is absent.
ParamOr(params, key, default) == IF key \in DOMAIN params THEN params[key] ELSE default

\* C26: keyvalue_to_uri_connectionstr.  For an input with an acceptable host
\* whose port is absent or a valid u16 it returns Ok; when the input has no
\* parameters but host, port, user, password and dbname, the URI is made of
\* the given values, with "localhost" for an absent host and 5432 for an
\* absent port (the empty string gives postgresql://localhost:5432).  When
\* the port is not a valid number it returns an error.
C26_ConnectionString ==
    call.fn = "keyvalue_to_uri_connectionstr" =>
        LET params == ParamsOf(call.arg.keyword_value)
            host == ParamOr(params, STR_HOST, STR_LOCALHOST)
        IN  /\ (/\ \A i \in 1..Len(host) : host[i] \notin ForbiddenHostCharacters
                /\ STR_PORT \in DOMAIN params => ParseU16(params[STR_PORT]).ok) =>
                   /\ result.ok
                   /\ DOMAIN params \subseteq {STR_HOST, STR_PORT, STR_USER,
                                               STR_PASSWORD, STR_DBNAME} =>
                          result.val =
                              UrlString(host,
                                        IF STR_PORT \in DOMAIN params
                                        THEN ParseU16(params[STR_PORT]).val ELSE 5432,
                                        ParamOr(params, STR_USER, <<>>),
                                        ParamOr(params, STR_PASSWORD, <<>>),
                                        ParamOr(params, STR_DBNAME, <<>>), <<>>)
                   /\ call.arg.keyword_value = <<>> =>
                          result.val = STR_POSTGRESQL \o STR_LOCALHOST \o <<":", "5", "4", "3", "2">>
            /\ (STR_PORT \in DOMAIN params /\ ~ParseU16(params[STR_PORT]).ok) => ~result.ok

\* A content table read_name_id_mappings can return: its IDs are u16 and
\* the count field, a u16, counts them.
Decodable(table) == DOMAIN table \subseteq 0..65535 /\ Cardinality(DOMAIN table) <= 65535

\* C29: the content-table count that is written is the number of entries
\* written.  For a block with a table a blob decodes to, after
\* get_or_create_content_id has added a name, the table has at most 65535
\* entries, the u16 count to_binary writes is the number of entries, and
\* the table read back from what is written is the table.
C29_CountNeverWraps ==
    (/\ call.fn = "add_content"
     /\ Decodable(call.arg.block.name_id_mappings)
     /\ result[2] # -1) =>
        LET after == result[1].name_id_mappings
        IN  /\ Cardinality(DOMAIN after) <= 65535
            /\ WrittenCount(after) = Cardinality(DOMAIN after)
            /\ \A order \in IterOrders(after) :
                   read_name_id_mappings(write_name_id_mappings(after, order))
                       = Ok(after, <<>>)

\* The blocks of the node positions of the model.
AddressedBlocks == {mapblock_at(q) : q \in I16Positions}

\* C30: every block position the cache can address is a valid database
\* key.  For every node position p with i16 components, each component of
\* mapblock_at(p) is in [-2048, 2047], the key of mapblock_at(p) decodes
\* back to mapblock_at(p), and no node position of another block has the
\* same key.
C30_AddressedBlocksAreKeys ==
    call.fn = "split_at_block" =>
        LET b == result[1]
        IN  /\ b = mapblock_at(call.arg)
            /\ \A axis \in {"x", "y", "z"} : b[axis] \in -2048..2047
            /\ from_database_key(as_database_key(b)) = b
            /\ \A other \in AddressedBlocks :
                   other # b => as_database_key(other) # as_database_key(b)

\* C30 witness: a node at the lowest x and the highest y has been split;
\* its block (-2048, 2047, -1) is at both ends of the key range and its
\* key is read back as that block.
C30_Witness ==
    /\ call.fn = "split_at_block"
    /\ call.arg = Pos(-32768, 32767, -1)
    /\ result[1] = Pos(-2048, 2047, -1)
    /\ from_database_key(as_database_key(result[1])) = Pos(-2048, 2047, -1)
    /\ Cardinality(AddressedBlocks) > 1

=============================================================================
